---- MODULE Spec2Model ----
(***************************************************************************)
(* Model of the HMIP frame codec (comm/proto.rs) and of the reconnecting   *)
(* transport actor (comm/actor.rs).                                        *)
(*                                                                         *)
(* Bytes are the integers 0..255.  A u32 is kept as its two 16-bit halves  *)
(* [hi, lo], because the model's integers stop below 2^31; usize values    *)
(* that the model meets (buffer lengths, offsets) are plain integers.      *)
(***************************************************************************)
EXTENDS Integers, Sequences, FiniteSets, TLC

VARIABLES
    \* ---- a FrameDecoder and the caller that drives it ----
    input,       \* what the caller was given (fixed during a run)
    wire,        \* the bytes the caller has still to push
    buf,         \* FrameDecoder.buf
    ret,         \* the value the last decoder call returned
    op,          \* the last decoder call: "new", "push" or "next_frame"
    out,         \* the frames next_frame has returned, in order
    dropsum,     \* the sum of dropped_bytes over the errors returned
    crcsum,      \* the total length of the frames rejected for a CRC mismatch
    nerr,        \* the number of errors returned
    overflowed,  \* some push has returned the buffer-overflow error
    pc,          \* where the caller is
    \* ---- a transport actor (spawn_serial_actor / spawn_tcp_actor) ----
    apc,         \* where the actor's worker is
    stream_opt,  \* stream_opt holds the initial stream
    attempt,     \* the retry-attempt counter
    delay_ms,    \* the backoff delay computed last
    shutdown_tx, \* the one-shot shutdown signal: "unsent" or "sent"
    high_rx,     \* the high-priority queue
    normal_rx,   \* the normal-priority queue
    writing,     \* the buffer under write_all, << >> when none
    events,      \* the events published so far, in order
    faults,      \* how many calls (I/O or emit) have failed so far
    sent,        \* how many buffers the callers have enqueued so far
    hpc,         \* where the caller of CommActorHandle::shutdown is
    \* ---- the commands (commands.rs) ----
    serial,      \* CommState.serial: the handle installed, 0 for None
    handles,     \* the actors spawned so far, by handle
    calls,       \* the command invocations and where each one is
    tcp,         \* CommState.tcp: the handle installed, 0 for None
    HMIP_NEXT_SEQ \* the static counter of automatic sequence numbers (u32)

dvars == << input, wire, buf, ret, op, out, dropsum, crcsum, nerr, overflowed, pc >>
avars == << apc, stream_opt, attempt, delay_ms, shutdown_tx, high_rx, normal_rx,
            writing, events, faults, sent, hpc >>
cvars == << serial, handles, calls, tcp, HMIP_NEXT_SEQ >>
vars == << dvars, avars, cvars >>

(***************************************************************************)
(* Bounds of the model.                                                    *)
(***************************************************************************)
\* stand-in for DecoderConfig::default().max_payload_len (8 MiB)
MaxPayload == 2
\* stand-in for DecoderConfig::default().max_buffer_len (16 MiB); as in the
\* default configuration one largest frame fits and two largest frames do not
MaxBuffer == 43
\* longest enumerated garbage prefix
MaxGarbage == 3
\* most frames in one stream
MaxFrames == 2
\* most command invocations in one run
MaxCalls == 2
\* longest enumerated message payload
MaxMessageLen == 14
\* largest attempt number fed to compute_backoff_ms besides u32::MAX
MaxAttempt == 12

(***************************************************************************)
(* Integer helpers.                                                        *)
(***************************************************************************)
Min(a, b) == IF a < b THEN a ELSE b

RECURSIVE BitXor(_, _)
\* bitwise exclusive or of two naturals
BitXor(a, b) ==
    IF a = 0 THEN b
    ELSE IF b = 0 THEN a
    ELSE 2 * BitXor(a \div 2, b \div 2) + ((a + b) % 2)

\* the tail of s from (0-based) offset n: BytesMut::advance(n)
Advance(s, n) == SubSeq(s, n + 1, Len(s))

(***************************************************************************)
(* u32 as two 16-bit halves.                                               *)
(***************************************************************************)
U32(hi, lo) == [hi |-> hi, lo |-> lo]
U32Zero == U32(0, 0)
U32Max == U32(65535, 65535)
\* `n as u32` for a usize n of the model
U32OfUsize(n) == U32((n \div 65536) % 65536, n % 65536)
\* u32::from_le_bytes
u32_from_le_bytes(b) == U32(b[3] + 256 * b[4], b[1] + 256 * b[2])
u32_to_be_bytes(u) == << u.hi \div 256, u.hi % 256, u.lo \div 256, u.lo % 256 >>
\* u32::to_le_bytes
u32_to_le_bytes(u) == << u.lo % 256, u.lo \div 256, u.hi % 256, u.hi \div 256 >>
\* `u as usize > n` for a usize n of the model (n < 2^31)
U32GtUsize(u, n) == IF u.hi >= 32768 THEN TRUE ELSE u.hi * 65536 + u.lo > n
\* `u as usize`, used only where u <= max_payload_len
U32AsUsize(u) == u.hi * 65536 + u.lo
U32Xor(a, b) == U32(BitXor(a.hi, b.hi), BitXor(a.lo, b.lo))
U32Shr1(a) == U32(a.hi \div 2, (a.hi % 2) * 32768 + (a.lo \div 2))
U32Shr8(a) == U32(a.hi \div 256, (a.hi % 256) * 256 + (a.lo \div 256))

\* Option<u32>
NoneU32 == [some |-> FALSE, val |-> U32Zero]
SomeU32(v) == [some |-> TRUE, val |-> v]

(***************************************************************************)
(* Protocol constants.                                                     *)
(***************************************************************************)
MAGIC == << 72, 77, 73, 80 >>
VERSION == 1
FLAG_CRC32 == 1
HEADER_LEN_BASE == 16
HEADER_LEN_WITH_CRC == 20

\* DecoderConfig::default(), scaled
max_payload_len == MaxPayload
max_buffer_len == MaxBuffer

\* flags & FLAG_CRC32 != 0
HasCrc(flags) == (flags % 2) = 1

(***************************************************************************)
(* CRC-32 (IEEE 802.3, reflected, as crc32fast computes it).               *)
(***************************************************************************)
Crc32Poly == U32(60856, 33568)      \* 0xEDB88320

Crc32Round(c) ==
    IF c.lo % 2 = 1 THEN U32Xor(U32Shr1(c), Crc32Poly) ELSE U32Shr1(c)

Crc32Table ==
    [i \in 0..255 |->
        Crc32Round(Crc32Round(Crc32Round(Crc32Round(
        Crc32Round(Crc32Round(Crc32Round(Crc32Round(U32(0, i)))))))))]

RECURSIVE Crc32Update(_, _, _)
Crc32Update(crc, bytes, i) ==
    IF i > Len(bytes) THEN crc
    ELSE Crc32Update(
            U32Xor(Crc32Table[BitXor(crc.lo % 256, bytes[i])], U32Shr8(crc)),
            bytes, i + 1)

crc32_bytes(bytes) == U32Xor(Crc32Update(U32Max, bytes, 1), U32Max)

(***************************************************************************)
(* Frames and results.                                                     *)
(***************************************************************************)
FrameHeader(msg_type, flags, channel, seq, payload_len, payload_crc32) ==
    [msg_type |-> msg_type, flags |-> flags, channel |-> channel, seq |-> seq,
     payload_len |-> payload_len, payload_crc32 |-> payload_crc32]

Frame(header, payload) == [header |-> header, payload |-> payload]

NoFrame == Frame(FrameHeader(0, 0, 0, U32Zero, U32Zero, NoneU32), << >>)

\* Result<Option<Frame>, DecodeError> and Result<(), DecodeError>, one shape
OkUnit == [kind |-> "Ok", frame |-> NoFrame, message |-> "", dropped_bytes |-> 0]
OkNone == [kind |-> "None", frame |-> NoFrame, message |-> "", dropped_bytes |-> 0]
OkSome(f) == [kind |-> "Frame", frame |-> f, message |-> "", dropped_bytes |-> 0]
DecodeError(message, dropped) ==
    [kind |-> "Err", frame |-> NoFrame, message |-> message, dropped_bytes |-> dropped]

MsgOverflow == "Decoder buffer overflow"
MsgMagicNotFound == "Resync: magic not found"
MsgDroppedBeforeMagic == "Resync: dropped bytes before magic"
MsgPayloadTooLarge == "Payload too large"
MsgCrcMismatch == "CRC32 mismatch"

\* what a decoder call leaves behind: the buffer and the value returned
Call(b, r) == [buf |-> b, ret |-> r]

(***************************************************************************)
(* encode_frame                                                            *)
(***************************************************************************)
EncodeFrameParams(msg_type, flags, channel, seq, payload) ==
    [msg_type |-> msg_type, flags |-> flags, channel |-> channel, seq |-> seq,
     payload |-> payload]

encode_frame(params) ==
    << MAGIC[1], MAGIC[2], MAGIC[3], MAGIC[4],
       VERSION, params.msg_type, params.flags, params.channel >>
    \o u32_to_le_bytes(params.seq)
    \o u32_to_le_bytes(U32OfUsize(Len(params.payload)))
    \o (IF HasCrc(params.flags)
          THEN u32_to_le_bytes(crc32_bytes(params.payload))
          ELSE << >>)
    \o params.payload

(***************************************************************************)
(* FrameDecoder                                                            *)
(***************************************************************************)
\* FrameDecoder::new: an empty buffer
NewDecoderBuf == << >>

PushNoCheck(b, bytes) == Call(b \o bytes, OkUnit)

PushOverwrite(b, bytes) ==
    IF bytes = << >> THEN Call(b, OkUnit)
    ELSE IF Len(b) + Len(bytes) > max_buffer_len
      THEN Call(<< >>, DecodeError(MsgOverflow, Len(b)))
      ELSE Call(bytes, OkUnit)

PushKeepOnOverflow(b, bytes) ==
    IF bytes = << >> THEN Call(b, OkUnit)
    ELSE IF Len(b) + Len(bytes) > max_buffer_len
      THEN Call(b, DecodeError(MsgOverflow, Len(b)))
      ELSE Call(b \o bytes, OkUnit)

\* FrameDecoder::push
push(b, bytes) ==
    IF bytes = << >> THEN Call(b, OkUnit)
    ELSE IF Len(b) + Len(bytes) > max_buffer_len
      THEN Call(<< >>, DecodeError(MsgOverflow, Len(b)))
      ELSE Call(b \o bytes, OkUnit)

RECURSIVE FindMagicFrom(_, _)
\* the loop of find_magic from index i (0-based); -1 is None
FindMagicFrom(b, i) ==
    IF i > Len(b) - Len(MAGIC) THEN -1
    ELSE IF b[i + 1] # MAGIC[1] THEN FindMagicFrom(b, i + 1)
    ELSE IF SubSeq(b, i + 1, i + Len(MAGIC)) = MAGIC THEN i
    ELSE FindMagicFrom(b, i + 1)

find_magic(b) == IF Len(b) < Len(MAGIC) THEN -1 ELSE FindMagicFrom(b, 0)

ExtractFrameUnchecked(b, dropped, msg_type, flags, channel, seq, payload_len, header_len, frame_len) ==
    LET payload == SubSeq(b, header_len + 1, frame_len)
        payload_crc32 ==
            IF HasCrc(flags) THEN SomeU32(u32_from_le_bytes(SubSeq(b, 17, 20))) ELSE NoneU32
    IN  Call(Advance(b, frame_len), OkSome(Frame(
            FrameHeader(msg_type, flags, channel, seq, payload_len, payload_crc32),
            payload)))

\* a CRC mismatch handled like a wrong version: one byte dropped, the frame kept
ExtractFrameCrcResync(b, dropped, msg_type, flags, channel, seq, payload_len, header_len, frame_len) ==
    LET payload == SubSeq(b, header_len + 1, frame_len)
        payload_crc32 ==
            IF HasCrc(flags) THEN SomeU32(u32_from_le_bytes(SubSeq(b, 17, 20))) ELSE NoneU32
    IN  IF payload_crc32.some /\ crc32_bytes(payload) # payload_crc32.val
          THEN Call(Advance(b, 1), DecodeError(MsgCrcMismatch, dropped + 1))
          ELSE Call(Advance(b, frame_len), OkSome(Frame(
                  FrameHeader(msg_type, flags, channel, seq, payload_len, payload_crc32),
                  payload)))

\* next_frame from "let frame_bytes = self.buf.split_to(frame_len)" on
ExtractFrame(b, dropped, msg_type, flags, channel, seq, payload_len, header_len, frame_len) ==
    LET frame_bytes == SubSeq(b, 1, frame_len)
        rest == Advance(b, frame_len)
        payload == SubSeq(frame_bytes, header_len + 1, frame_len)
        payload_crc32 ==
            IF HasCrc(flags)
              THEN SomeU32(u32_from_le_bytes(SubSeq(frame_bytes, 17, 20)))
              ELSE NoneU32
    IN  IF payload_crc32.some /\ crc32_bytes(payload) # payload_crc32.val
          THEN Call(rest, DecodeError(MsgCrcMismatch, dropped))
          ELSE Call(rest, OkSome(Frame(
                  FrameHeader(msg_type, flags, channel, seq, payload_len, payload_crc32),
                  payload)))

ResyncMagicNotFoundDropAll(b, dropped) ==
    Call(<< >>, DecodeError(MsgMagicNotFound, dropped + Len(b)))

\* a resync that keeps one byte less than a partial magic can have
ResyncMagicNotFoundKeepTwo(b, dropped) ==
    LET keep == Len(MAGIC) - 2
    IN  IF Len(b) > keep
          THEN Call(Advance(b, Len(b) - keep),
                    DecodeError(MsgMagicNotFound, dropped + (Len(b) - keep)))
          ELSE Call(b, DecodeError(MsgMagicNotFound, dropped))

\* next_frame, the None arm of `match pos`: keep the last 3 bytes
ResyncMagicNotFound(b, dropped) ==
    LET keep == Len(MAGIC) - 1
    IN  IF Len(b) > keep
          THEN Call(Advance(b, Len(b) - keep),
                    DecodeError(MsgMagicNotFound, dropped + (Len(b) - keep)))
          ELSE Call(b, DecodeError(MsgMagicNotFound, dropped))

PayloadLenTooLargeOffByOne(payload_len) == U32GtUsize(payload_len, max_payload_len + 1)

\* next_frame, `payload_len as usize > self.cfg.max_payload_len`
PayloadLenTooLarge(payload_len) == U32GtUsize(payload_len, max_payload_len)

RejectPayloadLenNoAdvance(b, dropped) ==
    Call(b, DecodeError(MsgPayloadTooLarge, dropped))

\* an oversized payload_len answered by dropping the whole header
RejectPayloadLenDropHeader(b, dropped) ==
    Call(Advance(b, HEADER_LEN_BASE),
         DecodeError(MsgPayloadTooLarge, dropped + HEADER_LEN_BASE))

\* an oversized payload_len whose dropped byte is not counted
RejectPayloadLenUncounted(b, dropped) ==
    Call(Advance(b, 1), DecodeError(MsgPayloadTooLarge, dropped))

\* next_frame, the arm that rejects an oversized payload_len
RejectPayloadLen(b, dropped) ==
    Call(Advance(b, 1), DecodeError(MsgPayloadTooLarge, dropped + 1))

\* a decoder that takes a frame of any version
VersionMismatchIgnored(version) == FALSE

\* next_frame, `version != VERSION`
VersionMismatch(version) == version # VERSION

\* a decoder that throws away a partial magic when it has to wait
InsufficientDataDropsShort(b) ==
    Call(IF Len(b) < Len(MAGIC) THEN << >> ELSE b, OkNone)

\* next_frame, `return Ok(None)`: the buffer is left as it is
InsufficientData(b) == Call(b, OkNone)

RECURSIVE NextFrameLoop(_, _)
\* one iteration of the loop of next_frame, with the bytes dropped so far
NextFrameLoop(b, dropped) ==
    IF Len(b) < Len(MAGIC) THEN InsufficientData(b)
    ELSE
    LET misaligned == SubSeq(b, 1, Len(MAGIC)) # MAGIC
        pos == find_magic(b)
        \* the buffer and the count after the Some(n) arm
        b1 == IF misaligned /\ pos > 0 THEN Advance(b, pos) ELSE b
        d1 == IF misaligned /\ pos > 0 THEN dropped + pos ELSE dropped
    IN  IF misaligned /\ pos = -1 THEN ResyncMagicNotFound(b, dropped)
        ELSE IF misaligned /\ d1 > 0
          THEN Call(b1, DecodeError(MsgDroppedBeforeMagic, d1))
        ELSE IF Len(b1) < HEADER_LEN_BASE THEN InsufficientData(b1)
        ELSE IF VersionMismatch(b1[5]) THEN NextFrameLoop(Advance(b1, 1), d1 + 1)
        ELSE
        LET msg_type == b1[6]
            flags == b1[7]
            channel == b1[8]
            seq == u32_from_le_bytes(SubSeq(b1, 9, 12))
            payload_len == u32_from_le_bytes(SubSeq(b1, 13, 16))
            header_len == IF HasCrc(flags) THEN HEADER_LEN_WITH_CRC ELSE HEADER_LEN_BASE
        IN  IF Len(b1) < header_len THEN InsufficientData(b1)
            ELSE IF PayloadLenTooLarge(payload_len) THEN RejectPayloadLen(b1, d1)
            ELSE IF Len(b1) < header_len + U32AsUsize(payload_len) THEN InsufficientData(b1)
            ELSE ExtractFrame(b1, d1, msg_type, flags, channel, seq, payload_len,
                              header_len, header_len + U32AsUsize(payload_len))

\* FrameDecoder::next_frame
next_frame(b) == NextFrameLoop(b, 0)

(***************************************************************************)
(* The caller's two calls on the decoder.                                  *)
(***************************************************************************)
\* the buffer starts with the magic
AlignedOnMagic(b) == Len(b) >= Len(MAGIC) /\ SubSeq(b, 1, Len(MAGIC)) = MAGIC

\* the fields of the header at the head of a buffer of at least 16 bytes
VersionAhead(b) == b[5]
PayloadLenAhead(b) == u32_from_le_bytes(SubSeq(b, 13, 16))
HeaderLenAhead(b) == IF HasCrc(b[7]) THEN HEADER_LEN_WITH_CRC ELSE HEADER_LEN_BASE
FrameLenAhead(b) == HeaderLenAhead(b) + U32AsUsize(PayloadLenAhead(b))

\* the caller's tally of what a call returned; a frame rejected for its CRC
\* is counted with the length its header declares
Tally(r) ==
    /\ dropsum' = dropsum + r.dropped_bytes
    /\ crcsum' = crcsum + (IF r.kind = "Err" /\ r.message = MsgCrcMismatch
                             THEN FrameLenAhead(buf) ELSE 0)
    /\ nerr' = nerr + (IF r.kind = "Err" THEN 1 ELSE 0)
    /\ out' = IF r.kind = "Frame" THEN Append(out, r.frame) ELSE out

NoTally == UNCHANGED << out, dropsum, crcsum, nerr, overflowed >>

\* dec.push(bytes)
DecPushCall(bytes) ==
    LET c == push(buf, bytes)
    IN  /\ buf' = c.buf
        /\ ret' = c.ret
        /\ op' = "push"
        /\ UNCHANGED avars
        /\ UNCHANGED cvars

\* dec.next_frame()
DecNextFrameCall ==
    LET c == next_frame(buf)
    IN  /\ buf' = c.buf
        /\ ret' = c.ret
        /\ op' = "next_frame"
        /\ UNCHANGED avars
        /\ UNCHANGED cvars

\* the calls, tallied
DecPush(bytes) ==
    /\ DecPushCall(bytes)
    /\ Tally(ret')
    /\ overflowed' = (overflowed \/ ret'.kind = "Err")

DecNextFrame ==
    /\ DecNextFrameCall
    /\ Tally(ret')
    /\ overflowed' = overflowed

\* the actor as spawn_serial_actor / spawn_tcp_actor leave it: the worker at
\* the head of its loop with the initial stream, both queues empty, the
\* shutdown signal unsent
ActorNew ==
    /\ apc = "connecting"
    /\ stream_opt = TRUE
    /\ attempt = 0
    /\ delay_ms = 0
    /\ shutdown_tx = "unsent"
    /\ high_rx = << >>
    /\ normal_rx = << >>
    /\ writing = << >>
    /\ events = << >>
    /\ faults = 0
    /\ sent = 0
    /\ hpc = "idle"

\* the handles a run can spawn: the one installed at its start and one for
\* each command
Handles == 1..(MaxCalls + 1)
Calls == 1..MaxCalls

\* a handle that no spawn has returned yet
NoActor ==
    [worker |-> "unspawned", shutdown_tx |-> "unsent", tx_high |-> << >>,
     tx_normal |-> << >>, failed |-> FALSE]

\* a command that has not been invoked yet
NoCall ==
    [cmd |-> "none", pc |-> "idle", h |-> 0, old |-> 0, priority |-> "None",
     data |-> << >>, result |-> "none"]

\* CommState::default(): no handle installed, no actor spawned, no command
\* invoked
CommStateDefault ==
    /\ serial = 0
    /\ handles = [h \in Handles |-> NoActor]
    /\ calls = [c \in Calls |-> NoCall]
    /\ tcp = 0
    /\ HMIP_NEXT_SEQ = U32(0, 1)

\* a new decoder in the caller's hands (the actor stays as spawned)
DecNew(in, bytes) ==
    /\ input = in
    /\ wire = bytes
    /\ buf = NewDecoderBuf
    /\ ret = OkUnit
    /\ op = "new"
    /\ out = << >>
    /\ dropsum = 0
    /\ crcsum = 0
    /\ nerr = 0
    /\ overflowed = FALSE
    /\ pc = "push"
    /\ ActorNew
    /\ CommStateDefault

(***************************************************************************)
(* Inputs.                                                                 *)
(***************************************************************************)
SeqsUpTo(S, n) == UNION { [1..k -> S] : k \in 0..n }

PayloadBytes == {0, 72, 255}
Payloads == SeqsUpTo(PayloadBytes, max_payload_len)

RtMsgTypes == {1, 32, 255}
RtFlags == {0, 1, 2, 3}
RtChannels == {0, 2, 255}
RtSeqs == {U32Zero, U32(0, 42), U32(258, 772), U32Max}

\* every frame the round trip is tried on
FrameInputs ==
    { EncodeFrameParams(t, f, c, q, p) :
        t \in RtMsgTypes, f \in RtFlags, c \in RtChannels, q \in RtSeqs, p \in Payloads }

\* the frames whose payload bits are flipped
CrcFrameInputs ==
    { EncodeFrameParams(t, f, 0, U32(0, 42), p) :
        t \in RtMsgTypes, f \in {1, 3}, p \in Payloads \ { << >> } }

NoFlip == [idx |-> 0, bit |-> 0]
Flips(x) == { [idx |-> i, bit |-> k] : i \in 1..Len(x.payload), k \in 0..7 }

\* the encoded frame with bit flip.bit of payload byte flip.idx inverted
FlipPayloadBit(bytes, flip) ==
    IF flip.idx = 0 THEN bytes
    ELSE LET hdr == IF HasCrc(bytes[7]) THEN HEADER_LEN_WITH_CRC ELSE HEADER_LEN_BASE
         IN  [bytes EXCEPT ![hdr + flip.idx] = BitXor(@, 2 ^ flip.bit)]

\* the Frame that equals the parameters x
FrameOfParams(x) ==
    Frame(FrameHeader(x.msg_type, x.flags, x.channel, x.seq,
                      U32OfUsize(Len(x.payload)),
                      IF HasCrc(x.flags) THEN SomeU32(crc32_bytes(x.payload)) ELSE NoneU32),
          x.payload)

(***************************************************************************)
(* SpecRoundTrip: one encoded frame, pushed whole into a new decoder, then *)
(* one next_frame call.                                                    *)
(***************************************************************************)
RtInputs ==
    { [x |-> x, flip |-> NoFlip] : x \in FrameInputs }
    \cup UNION { { [x |-> x, flip |-> fl] : fl \in Flips(x) } : x \in CrcFrameInputs }

RtInit ==
    \E in \in RtInputs : DecNew(in, FlipPayloadBit(encode_frame(in.x), in.flip))

RtPush ==
    /\ pc = "push"
    /\ DecPush(wire)
    /\ wire' = << >>
    /\ pc' = "drain"
    /\ UNCHANGED input

RtNextFrame ==
    /\ pc = "drain"
    /\ DecNextFrame
    /\ pc' = "done"
    /\ UNCHANGED << input, wire >>

RtNext == RtPush \/ RtNextFrame

SpecRoundTrip == RtInit /\ [][RtNext]_vars

\* C1: the frame decoded from encode_frame(x) equals x field by field, and
\* carries the CRC32 of the payload exactly when flag bit 0 is set.
RoundTrip ==
    (pc = "done" /\ input.flip = NoFlip) => ret = OkSome(FrameOfParams(input.x))

\* C1 is reached: payloads of length 0 and of exactly max_payload_len, with
\* and without the CRC flag, have been decoded.
RoundTripWitness ==
    /\ pc = "done"
    /\ input.flip = NoFlip
    /\ Len(input.x.payload) = max_payload_len
    /\ HasCrc(input.x.flags)
    /\ input.x.seq = U32Max
    /\ ret.kind = "Frame"

\* C5: a CRC-flagged frame with one payload bit flipped makes next_frame
\* return the CRC32-mismatch error, and no Frame is ever returned for it.
CrcEnforced ==
    input.flip # NoFlip =>
        /\ out = << >>
        /\ pc = "done" => (ret.kind = "Err" /\ ret.message = MsgCrcMismatch)

\* C5 is reached: a flipped bit in the last payload byte of a longest payload.
CrcEnforcedWitness ==
    /\ pc = "done"
    /\ input.flip.idx = max_payload_len
    /\ input.flip.bit = 7
    /\ ret.kind = "Err"

(***************************************************************************)
(* SpecSplit and SpecResync: a stream pushed in chunks of any size, the    *)
(* decoder drained with next_frame after every push (as run_io_loop does). *)
(***************************************************************************)
\* a payload of n bytes that repeats the magic
MagicPayload(n) == [i \in 1..n |-> MAGIC[((i - 1) % 4) + 1]]

FrameChoices ==
    { EncodeFrameParams(3, 0, 0, U32(0, 1), << >>),
      EncodeFrameParams(3, 0, 0, U32(0, 2), << >>),
      EncodeFrameParams(16, 2, 1, U32(0, 9), << 1 >>),
      EncodeFrameParams(32, 1, 2, U32Max, MagicPayload(max_payload_len)) }

RECURSIVE EncodeAll(_)
\* the concatenated encodings of a sequence of frames
EncodeAll(xs) ==
    IF xs = << >> THEN << >> ELSE encode_frame(Head(xs)) \o EncodeAll(Tail(xs))

FramesOfParams(xs) == [i \in 1..Len(xs) |-> FrameOfParams(xs[i])]

IsPrefix(a, b) == Len(a) <= Len(b) /\ a = SubSeq(b, 1, Len(a))

Filler(n) == [i \in 1..n |-> 0]

GarbageTails ==
    { << >>, << 72 >>, << 72, 77 >>, << 72, 77, 73 >>, << 72, 77, 73, 72 >>,
      << 72, 72, 77, 73 >>, << 80 >>, << 77, 73, 80 >> }

\* byte strings without the magic: short ones that end in part of a magic,
\* and one as long as the decoder buffer
GarbageInputs ==
    ({ Filler(n) \o t : n \in 0..MaxGarbage, t \in GarbageTails } \ { << >> })
    \cup { Filler(max_buffer_len) }

SplitInputs ==
    { [garbage |-> << >>, frames |-> xs] :
        xs \in UNION { [1..k -> FrameChoices] : k \in 1..MaxFrames } }

ResyncInputs ==
    { [garbage |-> g, frames |-> << x >>] : g \in GarbageInputs, x \in FrameChoices }

SplitInit == \E in \in SplitInputs : DecNew(in, EncodeAll(in.frames))

ResyncInit == \E in \in ResyncInputs : DecNew(in, in.garbage \o EncodeAll(in.frames))

\* push the next n bytes of the stream, for any n (the caller gives up after
\* a buffer overflow)
SplitPush ==
    /\ pc = "push"
    /\ ~overflowed
    /\ wire # << >>
    /\ \E n \in 1..Len(wire) :
          /\ DecPush(SubSeq(wire, 1, n))
          /\ wire' = Advance(wire, n)
    /\ pc' = "drain"
    /\ UNCHANGED input

\* call next_frame again until it returns Ok(None)
SplitNextFrame ==
    /\ pc = "drain"
    /\ DecNextFrame
    /\ pc' = IF ret'.kind # "None" THEN "drain"
             ELSE IF wire = << >> THEN "done" ELSE "push"
    /\ UNCHANGED << input, wire >>

SplitNext == SplitPush \/ SplitNextFrame

SpecSplit == SplitInit /\ [][SplitNext]_vars

SpecResync == ResyncInit /\ [][SplitNext]_vars

\* C2 as claimed: whatever the partition into pushes, the N frames come out
\* in wire order, without any error, and the last call returns Ok(None).
SplitAnyPartition ==
    pc = "done" =>
        (out = FramesOfParams(input.frames) /\ nerr = 0 /\ ret = OkNone)

\* C2 as amended: the same, for the partitions in which no push overflows
\* the buffer.
SplitNoOverflow ==
    ~overflowed =>
        /\ nerr = 0
        /\ IsPrefix(out, FramesOfParams(input.frames))
        /\ pc = "done" => (out = FramesOfParams(input.frames) /\ ret = OkNone)

\* C2 is reached: two frames pushed in one call have both been returned.
SplitWitness ==
    /\ pc = "done"
    /\ ~overflowed
    /\ Len(input.frames) = 2
    /\ Len(out) = 2
    /\ out[1].header.seq # out[2].header.seq

\* C3 as claimed: garbage without the magic, then one frame, in any chunking:
\* exactly that frame is returned and the errors' dropped_bytes sum to
\* len(garbage).
ResyncAnyChunking ==
    pc = "done" =>
        (out = FramesOfParams(input.frames) /\ dropsum = Len(input.garbage))

\* C3 as amended: the same, for the chunkings in which no push overflows the
\* buffer; the garbage has been reported in full when the frame is returned.
ResyncNoOverflow ==
    ~overflowed =>
        /\ out = << >> \/ (out = FramesOfParams(input.frames)
                            /\ dropsum = Len(input.garbage))
        /\ dropsum <= Len(input.garbage)
        /\ pc = "done" => out # << >>

\* C3 is reached: the garbage was reported in more than one error before the
\* frame came out.
ResyncWitness ==
    /\ pc = "done"
    /\ ~overflowed
    /\ nerr >= 2
    /\ dropsum = Len(input.garbage)
    /\ Len(out) = 1

(***************************************************************************)
(* SpecDecoder: streams of well-formed and damaged pieces, pushed in       *)
(* chunks of any size, with next_frame called at any time.                 *)
(***************************************************************************)
\* s with the byte at (1-based) index i replaced by v
SetByte(s, i, v) == [s EXCEPT ![i] = v]

GoodPlain == encode_frame(EncodeFrameParams(3, 0, 0, U32(0, 1), << >>))
\* a frame without CRC32 whose payload has max_payload_len bytes: one byte
\* longer than a read can return
PlainMax == encode_frame(EncodeFrameParams(3, 0, 0, U32(0, 7), MagicPayload(max_payload_len)))
GoodCrc == encode_frame(EncodeFrameParams(32, 1, 2, U32(0, 42), MagicPayload(max_payload_len)))

Pieces ==
    { GoodCrc,
      GoodPlain,
      \* version byte 2
      SetByte(GoodPlain, 5, 2),
      \* payload_len = max_payload_len + 1, with its payload
      encode_frame(EncodeFrameParams(16, 0, 1, U32(0, 7), Filler(max_payload_len + 1))),
      \* payload_len = 0xFFFFFFFF
      SubSeq(GoodPlain, 1, 12) \o << 255, 255, 255, 255 >>,
      \* a CRC-flagged frame whose last payload byte is damaged
      SetByte(GoodCrc, Len(GoodCrc), 0),
      \* noise that ends in part of a magic
      << 0, 72, 77, 73 >>,
      \* a frame cut inside its header
      SubSeq(GoodCrc, 1, 18) }

RECURSIVE Concat(_)
Concat(ss) == IF ss = << >> THEN << >> ELSE Head(ss) \o Concat(Tail(ss))

DecoderInputs == UNION { [1..k -> Pieces] : k \in 1..MaxFrames }

DecoderInit == \E in \in DecoderInputs : DecNew(in, Concat(in))

DecoderPush ==
    /\ wire # << >>
    /\ \E n \in 1..Len(wire) :
          /\ DecPushCall(SubSeq(wire, 1, n))
          /\ wire' = Advance(wire, n)
    /\ NoTally
    /\ UNCHANGED << input, pc >>

DecoderNextFrame ==
    /\ DecNextFrameCall
    /\ NoTally
    /\ UNCHANGED << input, wire, pc >>

DecoderNext == DecoderPush \/ DecoderNextFrame

SpecDecoder == DecoderInit /\ [][DecoderNext]_vars

\* C4: a next_frame call that returns an error or a Frame leaves strictly
\* fewer bytes in the buffer than it found (so repeated calls end in Ok(None)
\* and no error is reported twice for the same bytes).
ForwardProgress ==
    [][(op' = "next_frame" /\ ret'.kind \in {"Err", "Frame"}) => Len(buf') < Len(buf)]_vars

\* C4 is reached: next_frame has returned the oversized-payload error.
ForwardProgressWitness ==
    /\ op = "next_frame"
    /\ ret.kind = "Err"
    /\ ret.message = MsgPayloadTooLarge

\* C7: the decoder buffer never holds more than max_buffer_len bytes.
BufferBound == Len(buf) <= max_buffer_len

\* C7 is reached: a push has filled the buffer to exactly max_buffer_len.
BufferBoundWitness ==
    /\ op = "push"
    /\ ret.kind = "Ok"
    /\ Len(buf) = max_buffer_len

\* C8: a returned Frame has payload length = header.payload_len <=
\* max_payload_len, and payload_crc32 present exactly when bit 0 of flags is
\* set, then equal to the CRC32 of the payload.
FrameWellFormed ==
    ret.kind = "Frame" =>
        LET h == ret.frame.header
        IN  /\ h.payload_len.hi = 0
            /\ h.payload_len.lo <= max_payload_len
            /\ Len(ret.frame.payload) = h.payload_len.lo
            /\ h.payload_crc32.some <=> (h.flags % 2 = 1)
            /\ h.payload_crc32.some => h.payload_crc32.val = crc32_bytes(ret.frame.payload)

\* C8 is reached: a CRC-flagged frame with a longest payload was returned from
\* a stream that also held a damaged piece.
FrameWellFormedWitness ==
    /\ ret.kind = "Frame"
    /\ ret.frame.header.payload_crc32.some
    /\ Len(ret.frame.payload) = max_payload_len
    /\ input[1] # GoodCrc

(***************************************************************************)
(* SpecOverflow: bytes pushed until a push overflows the buffer, then one  *)
(* valid frame pushed and taken.                                           *)
(***************************************************************************)
JunkPrefixes == { << >>, SubSeq(GoodPlain, 1, 15), SubSeq(GoodCrc, 1, Len(GoodCrc) - 1) }

OverflowInputs ==
    { [junk |-> j \o Filler(max_buffer_len + 1), x |-> x] :
        j \in JunkPrefixes, x \in FrameChoices }

OverflowInit == \E in \in OverflowInputs : DecNew(in, in.junk)

\* push the next n bytes, for any n; an overflow ends the filling
OverflowPush ==
    /\ pc = "push"
    /\ wire # << >>
    /\ \E n \in 1..Len(wire) :
          /\ DecPush(SubSeq(wire, 1, n))
          /\ wire' = Advance(wire, n)
    /\ pc' = IF ret'.kind = "Err" THEN "cleared" ELSE "push"
    /\ UNCHANGED input

OverflowNextFrame ==
    /\ pc = "push"
    /\ DecNextFrame
    /\ UNCHANGED << input, wire, pc >>

\* after the overflow: push one valid frame
OverflowPushFrame ==
    /\ pc = "cleared"
    /\ DecPush(encode_frame(input.x))
    /\ pc' = "drain"
    /\ UNCHANGED << input, wire >>

OverflowTakeFrame ==
    /\ pc = "drain"
    /\ DecNextFrame
    /\ pc' = "done"
    /\ UNCHANGED << input, wire >>

OverflowNext ==
    OverflowPush \/ OverflowNextFrame \/ OverflowPushFrame \/ OverflowTakeFrame

SpecOverflow == OverflowInit /\ [][OverflowNext]_vars

\* C6: a push that would take the buffer past max_buffer_len returns the
\* overflow error with dropped_bytes = the length buffered before the call and
\* leaves the buffer empty; a valid frame pushed afterwards is returned by
\* next_frame.
OverflowHandled ==
    /\ [][(pc = "push" /\ op' = "push"
             /\ Len(buf) + (Len(wire) - Len(wire')) > max_buffer_len)
          => (ret' = DecodeError(MsgOverflow, Len(buf)) /\ buf' = << >>)]_vars
    /\ [](pc = "done" => ret = OkSome(FrameOfParams(input.x)))

\* C6 is reached: after an overflow that dropped buffered bytes, the frame
\* pushed next was returned.
OverflowHandledWitness ==
    /\ pc = "done"
    /\ overflowed
    /\ dropsum > 0
    /\ ret.kind = "Frame"

(***************************************************************************)
(* Messages (comm/proto.rs): the typed messages carried in a frame's       *)
(* payload.  A String is kept as its UTF-8 bytes; a u16 is a plain         *)
(* integer; a u64 is kept as its four 16-bit limbs, lowest first.          *)
(***************************************************************************)
HELLO == 1
HELLO_ACK == 2
HEARTBEAT == 3
REQUEST == 16
RESPONSE == 17
EVENT == 32
ERROR == 127

\* the msg_type values decode_message has an arm for
KnownMsgTypes == { HELLO, HELLO_ACK, HEARTBEAT, REQUEST, RESPONSE, EVENT, ERROR }

\* u16::from_le_bytes, u16::to_le_bytes
u16_from_le_bytes(b) == b[1] + 256 * b[2]
u16_to_le_bytes(v) == << v % 256, v \div 256 >>
\* u64::from_le_bytes, u64::to_le_bytes
u64_from_le_bytes(b) == [i \in 1..4 |-> b[2 * i - 1] + 256 * b[2 * i]]
u64_to_le_bytes(v) ==
    [i \in 1..8 |-> IF i % 2 = 1 THEN v[(i + 1) \div 2] % 256 ELSE v[i \div 2] \div 256]

\* a UTF-8 continuation byte at (1-based) index i of b
IsCont(b, i) == i <= Len(b) /\ b[i] >= 128 /\ b[i] <= 191

\* the length of the UTF-8 sequence a lead byte announces, 0 for a byte that
\* cannot start one
Utf8SeqLen(c) ==
    IF c < 128 THEN 1
    ELSE IF c >= 194 /\ c <= 223 THEN 2
    ELSE IF c >= 224 /\ c <= 239 THEN 3
    ELSE IF c >= 240 /\ c <= 244 THEN 4
    ELSE 0

\* the sequence that starts at index i of b is well formed: its continuation
\* bytes are there, and the second byte keeps out overlong forms, surrogates
\* and code points above U+10FFFF
Utf8SeqAt(b, i) ==
    LET c == b[i]
        n == Utf8SeqLen(c)
    IN  /\ n > 0
        /\ \A k \in 1..(n - 1) : IsCont(b, i + k)
        /\ (c = 224 => b[i + 1] >= 160)
        /\ (c = 237 => b[i + 1] <= 159)
        /\ (c = 240 => b[i + 1] >= 144)
        /\ (c = 244 => b[i + 1] <= 143)

\* the continuation byte at index i of b belongs to a sequence started at
\* most three bytes before it
Utf8Covered(b, i) ==
    \E k \in 1..3 :
        /\ i - k >= 1
        /\ ~IsCont(b, i - k)
        /\ Utf8SeqLen(b[i - k]) > k
        /\ \A j \in 1..(k - 1) : IsCont(b, i - j)

\* std::str::from_utf8(bytes).is_ok()
Utf8Valid(b) ==
    \A i \in 1..Len(b) : IF IsCont(b, i) THEN Utf8Covered(b, i) ELSE Utf8SeqAt(b, i)

\* Role::from_u8 ("None" for None) and Role::as_u8
RoleFromU8(v) == IF v = 0 THEN "Client" ELSE IF v = 1 THEN "Server" ELSE "None"
RoleAsU8(role) == IF role = "Client" THEN 0 ELSE 1

\* the variants of Message
MsgHello(role, capabilities, name) ==
    [kind |-> "Hello", role |-> role, capabilities |-> capabilities, name |-> name]
MsgHelloAck(capabilities, name) ==
    [kind |-> "HelloAck", capabilities |-> capabilities, name |-> name]
MsgHeartbeat(timestamp_ms) == [kind |-> "Heartbeat", timestamp_ms |-> timestamp_ms]
MsgRequest(request_id, method, body) ==
    [kind |-> "Request", request_id |-> request_id, method |-> method, body |-> body]
MsgResponse(request_id, status, body) ==
    [kind |-> "Response", request_id |-> request_id, status |-> status, body |-> body]
MsgEvent(event_id, timestamp_ms, body) ==
    [kind |-> "Event", event_id |-> event_id, timestamp_ms |-> timestamp_ms, body |-> body]
MsgError(code, message) == [kind |-> "Error", code |-> code, message |-> message]
MsgRaw(msg_type, payload) == [kind |-> "Raw", msg_type |-> msg_type, payload |-> payload]

\* Result<Message, MessageDecodeError>
MessageOk(m) == [kind |-> "Ok", msg |-> m, error |-> ""]
MessageDecodeError(text) == [kind |-> "Err", msg |-> [kind |-> "None"], error |-> text]

\* a decode_hello that takes the name bytes that are there when the declared
\* length exceeds them
decode_hello_lenient(payload) ==
    IF Len(payload) < 1 + 4 + 1 THEN MessageDecodeError("HELLO payload too short")
    ELSE IF RoleFromU8(payload[1]) = "None" THEN MessageDecodeError("HELLO invalid role")
    ELSE LET capabilities == u32_from_le_bytes(SubSeq(payload, 2, 5))
             name_bytes == SubSeq(payload, 7, Min(6 + payload[6], Len(payload)))
         IN  IF ~Utf8Valid(name_bytes) THEN MessageDecodeError("HELLO name not utf8")
             ELSE MessageOk(MsgHello(RoleFromU8(payload[1]), capabilities, name_bytes))

decode_hello(payload) ==
    IF Len(payload) < 1 + 4 + 1 THEN MessageDecodeError("HELLO payload too short")
    ELSE IF RoleFromU8(payload[1]) = "None" THEN MessageDecodeError("HELLO invalid role")
    ELSE LET capabilities == u32_from_le_bytes(SubSeq(payload, 2, 5))
             name_len == payload[6]
         IN  IF Len(payload) < 6 + name_len THEN MessageDecodeError("HELLO name truncated")
             ELSE LET name_bytes == SubSeq(payload, 7, 6 + name_len)
                  IN  IF ~Utf8Valid(name_bytes) THEN MessageDecodeError("HELLO name not utf8")
                      ELSE MessageOk(MsgHello(RoleFromU8(payload[1]), capabilities, name_bytes))

decode_hello_ack(payload) ==
    IF Len(payload) < 4 + 1 THEN MessageDecodeError("HELLO_ACK payload too short")
    ELSE LET capabilities == u32_from_le_bytes(SubSeq(payload, 1, 4))
             name_len == payload[5]
         IN  IF Len(payload) < 5 + name_len THEN MessageDecodeError("HELLO_ACK name truncated")
             ELSE LET name_bytes == SubSeq(payload, 6, 5 + name_len)
                  IN  IF ~Utf8Valid(name_bytes) THEN MessageDecodeError("HELLO_ACK name not utf8")
                      ELSE MessageOk(MsgHelloAck(capabilities, name_bytes))

decode_heartbeat(payload) ==
    IF Len(payload) # 8 THEN MessageDecodeError("HEARTBEAT payload must be 8 bytes")
    ELSE MessageOk(MsgHeartbeat(u64_from_le_bytes(SubSeq(payload, 1, 8))))

decode_request(payload) ==
    IF Len(payload) < 8 THEN MessageDecodeError("REQUEST payload too short")
    ELSE MessageOk(MsgRequest(u32_from_le_bytes(SubSeq(payload, 1, 4)),
                              u16_from_le_bytes(SubSeq(payload, 5, 6)),
                              Advance(payload, 8)))

decode_response(payload) ==
    IF Len(payload) < 8 THEN MessageDecodeError("RESPONSE payload too short")
    ELSE MessageOk(MsgResponse(u32_from_le_bytes(SubSeq(payload, 1, 4)),
                               u16_from_le_bytes(SubSeq(payload, 5, 6)),
                               Advance(payload, 8)))

decode_event(payload) ==
    IF Len(payload) < 12 THEN MessageDecodeError("EVENT payload too short")
    ELSE MessageOk(MsgEvent(u16_from_le_bytes(SubSeq(payload, 1, 2)),
                            u64_from_le_bytes(SubSeq(payload, 5, 12)),
                            Advance(payload, 12)))

decode_error(payload) ==
    IF Len(payload) < 2 + 2 + 2 THEN MessageDecodeError("ERROR payload too short")
    ELSE LET code == u16_from_le_bytes(SubSeq(payload, 1, 2))
             msg_len == u16_from_le_bytes(SubSeq(payload, 5, 6))
         IN  IF Len(payload) < 6 + msg_len THEN MessageDecodeError("ERROR message truncated")
             ELSE LET msg_bytes == SubSeq(payload, 7, 6 + msg_len)
                  IN  IF ~Utf8Valid(msg_bytes) THEN MessageDecodeError("ERROR message not utf8")
                      ELSE MessageOk(MsgError(code, msg_bytes))

\* a decode_message without the arm for unknown types
decode_message_strict(frame) ==
    LET payload == frame.payload
        t == frame.header.msg_type
    IN  IF t = HELLO THEN decode_hello(payload)
        ELSE IF t = HELLO_ACK THEN decode_hello_ack(payload)
        ELSE IF t = HEARTBEAT THEN decode_heartbeat(payload)
        ELSE IF t = REQUEST THEN decode_request(payload)
        ELSE IF t = RESPONSE THEN decode_response(payload)
        ELSE IF t = EVENT THEN decode_event(payload)
        ELSE IF t = ERROR THEN decode_error(payload)
        ELSE MessageDecodeError("unknown msg_type")

decode_message(frame) ==
    LET payload == frame.payload
        t == frame.header.msg_type
    IN  IF t = HELLO THEN decode_hello(payload)
        ELSE IF t = HELLO_ACK THEN decode_hello_ack(payload)
        ELSE IF t = HEARTBEAT THEN decode_heartbeat(payload)
        ELSE IF t = REQUEST THEN decode_request(payload)
        ELSE IF t = RESPONSE THEN decode_response(payload)
        ELSE IF t = EVENT THEN decode_event(payload)
        ELSE IF t = ERROR THEN decode_error(payload)
        ELSE MessageOk(MsgRaw(t, payload))

encode_hello(hello) ==
    LET name_bytes == hello.name
        name_len == Min(Len(name_bytes), 255)
    IN  << RoleAsU8(hello.role) >> \o u32_to_le_bytes(hello.capabilities)
           \o << name_len >> \o SubSeq(name_bytes, 1, name_len)

encode_hello_ack(ack) ==
    LET name_bytes == ack.name
        name_len == Min(Len(name_bytes), 255)
    IN  u32_to_le_bytes(ack.capabilities) \o << name_len >> \o SubSeq(name_bytes, 1, name_len)

encode_heartbeat(hb) == u64_to_le_bytes(hb.timestamp_ms)

encode_request(req) ==
    u32_to_le_bytes(req.request_id) \o u16_to_le_bytes(req.method)
        \o u16_to_le_bytes(0) \o req.body

encode_response(resp) ==
    u32_to_le_bytes(resp.request_id) \o u16_to_le_bytes(resp.status)
        \o u16_to_le_bytes(0) \o resp.body

encode_event(ev) ==
    u16_to_le_bytes(ev.event_id) \o u16_to_le_bytes(0)
        \o u64_to_le_bytes(ev.timestamp_ms) \o ev.body

encode_error(err) ==
    LET msg_bytes == err.message
        msg_len == Min(Len(msg_bytes), 65535)
    IN  u16_to_le_bytes(err.code) \o u16_to_le_bytes(0) \o u16_to_le_bytes(msg_len)
           \o SubSeq(msg_bytes, 1, msg_len)

(***************************************************************************)
(* Backoff policy (comm/actor.rs).                                         *)
(***************************************************************************)
RECONNECT_MIN_DELAY_MS == 200
RECONNECT_MAX_DELAY_MS == 5000

compute_backoff_ms_uncapped(n) ==
    LET exp == Min(n, 6)
    IN  RECONNECT_MIN_DELAY_MS * (2 ^ exp)

\* compute_backoff_ms(attempt), attempt written n; the multiplication cannot saturate (200 * 2^6 < 2^64)
compute_backoff_ms(n) ==
    LET exp == Min(n, 6)
        base == RECONNECT_MIN_DELAY_MS * (2 ^ exp)
    IN  Min(base, RECONNECT_MAX_DELAY_MS)

(***************************************************************************)
(* SpecBackoff: compute_backoff_ms applied to two attempt numbers.         *)
(***************************************************************************)
\* 2147483647 stands for the large u32 values
BackoffAttempts == 0..MaxAttempt \cup { 2147483647 }

BackoffInit ==
    \E a \in BackoffAttempts, b \in BackoffAttempts :
        /\ input = [a |-> a, b |-> b]
        /\ wire = << >>
        /\ buf = NewDecoderBuf
        /\ ret = [a |-> 0, b |-> 0]
        /\ op = "new"
        /\ out = << >>
        /\ dropsum = 0
        /\ crcsum = 0
        /\ nerr = 0
        /\ overflowed = FALSE
        /\ pc = "call"
        /\ ActorNew
        /\ CommStateDefault

BackoffCompute ==
    /\ pc = "call"
    /\ ret' = [a |-> compute_backoff_ms(input.a), b |-> compute_backoff_ms(input.b)]
    /\ pc' = "done"
    /\ UNCHANGED << input, wire, buf, op, out, dropsum, crcsum, nerr, overflowed >>
    /\ UNCHANGED avars
    /\ UNCHANGED cvars

BackoffNext == BackoffCompute

SpecBackoff == BackoffInit /\ [][BackoffNext]_vars

\* 2^n by repeated doubling
RECURSIVE Doubled(_, _)
Doubled(x, n) == IF n = 0 THEN x ELSE Doubled(x + x, n - 1)

\* C9: compute_backoff_ms(attempt) = min(200 * 2^min(attempt,6), 5000); it is
\* non-decreasing in attempt, 200 at attempt 0, and 5000 from attempt 5 on.
BackoffPolicy ==
    pc = "done" =>
        /\ ret.a = (IF Doubled(200, IF input.a < 6 THEN input.a ELSE 6) < 5000
                      THEN Doubled(200, IF input.a < 6 THEN input.a ELSE 6)
                      ELSE 5000)
        /\ input.a <= input.b => ret.a <= ret.b
        /\ input.a = 0 => ret.a = 200
        /\ input.a >= 5 => ret.a = 5000
        /\ ret.a \in 200..5000

\* C9 is reached: a delay below the cap next to the delay of a very large
\* attempt number.
BackoffPolicyWitness ==
    /\ pc = "done"
    /\ input.a = 4
    /\ ret.a = 3200
    /\ input.b = 2147483647
    /\ ret.b = 5000

(***************************************************************************)
(* The transport actor (comm/actor.rs): one worker that owns the stream,   *)
(* writes the queued buffers by priority, feeds the bytes it reads to a    *)
(* FrameDecoder and reconnects with backoff.  spawn_serial_actor and       *)
(* spawn_tcp_actor run the same loop; the model has one of them.           *)
(***************************************************************************)
\* most steps of the environment in one run: calls that fail (open, read,
\* write, emit), plus buffers that callers enqueue
MaxEnv == 2
\* stand-in for READ_BUFFER_SIZE (4096): as there, a read added to what a
\* drained decoder may still hold stays below max_buffer_len
MaxRead == 17

READ_BUFFER_SIZE == MaxRead
\* mpsc::channel::<Vec<u8>>(64) and (256)
HighQueueCapacity == 64
NormalQueueCapacity == 256

\* CommEvent and HmipEvent (transport and timestamp_ms are not kept, nor is
\* the summary of a Message)
EvConnected == [kind |-> "Connected"]
EvDisconnected == [kind |-> "Disconnected"]
EvReconnecting(a, d) == [kind |-> "Reconnecting", attempt |-> a, delay_ms |-> d]
EvError(message) == [kind |-> "Error", message |-> message]
EvTx(size) == [kind |-> "Tx", size |-> size]
EvRx(bytes) == [kind |-> "Rx", size |-> Len(bytes), data |-> bytes]
\* HmipMessageSummary as run_io_loop builds it from decode_message's result;
\* the base64 previews of bodies and payloads are left out
SummaryOf(frame) ==
    LET decoded == decode_message(frame)
        v == decoded.msg
    IN  IF decoded.kind = "Err"
        THEN [kind |-> "Raw", msg_type |-> frame.header.msg_type,
              payload_len |-> Len(frame.payload)]
        ELSE IF v.kind = "Hello"
        THEN [kind |-> "Hello",
              role |-> IF v.role = "Client" THEN "client" ELSE "server",
              capabilities |-> v.capabilities, name |-> v.name]
        ELSE IF v.kind = "HelloAck"
        THEN [kind |-> "HelloAck", capabilities |-> v.capabilities, name |-> v.name]
        ELSE IF v.kind = "Heartbeat"
        THEN [kind |-> "Heartbeat", timestamp_ms |-> v.timestamp_ms]
        ELSE IF v.kind = "Request"
        THEN [kind |-> "Request", request_id |-> v.request_id, method |-> v.method,
              body_len |-> Len(v.body)]
        ELSE IF v.kind = "Response"
        THEN [kind |-> "Response", request_id |-> v.request_id, status |-> v.status,
              body_len |-> Len(v.body)]
        ELSE IF v.kind = "Event"
        THEN [kind |-> "Event", event_id |-> v.event_id, timestamp_ms |-> v.timestamp_ms,
              body_len |-> Len(v.body)]
        ELSE IF v.kind = "Error"
        THEN [kind |-> "Error", code |-> v.code, message |-> v.message]
        ELSE [kind |-> "Raw", msg_type |-> v.msg_type, payload_len |-> Len(v.payload)]

\* HmipEvent::Message for a frame
HmipMessage(frame) ==
    [kind |-> "Message", header |-> frame.header, summary |-> SummaryOf(frame)]
HmipDecodeError(e) ==
    [kind |-> "DecodeError", message |-> e.message, dropped_bytes |-> e.dropped_bytes]

MsgOpenFailed == "open failed"
MsgWriteFailed == "Write failed"
MsgWriteTimeout == "Write timeout (2000ms)"
MsgRemoteClosed == "Remote closed"
MsgReadFailed == "Read failed"

\* emit_event / emit_hmip_event: the event is published when app.emit
\* succeeds (ok), and the call returns ok
Emit(log, ev, ok) == IF ok THEN Append(log, ev) ELSE log

\* an emit that fails is one more failed call of the run
EmitFails(ok) == IF ok THEN 0 ELSE 1

\* the state of the state machine the worker is in
StateOf(p) ==
    CASE p \in { "connecting", "opening" } -> "Connecting"
      [] p \in { "connected", "writing" } -> "Connected"
      [] p = "sleeping" -> "Reconnecting"
      [] p \in { "exit", "terminated" } -> "Shutdown"

\* a run_io_loop that goes on to its next select although the connection is lost
AfterExitNoSleep(exit) == IF exit = "Shutdown" THEN "exit" ELSE "connecting"

\* where the worker goes when run_io_loop returns: break on Shutdown, the
\* backoff sleep on IoError
AfterExit(exit) == IF exit = "Shutdown" THEN "exit" ELSE "sleeping"

RECURSIVE DrainStopsAtError(_)
\* a loop over next_frame that gives up at the first error
DrainStopsAtError(b) ==
    LET c == next_frame(b)
    IN  IF c.ret.kind = "None" THEN [buf |-> c.buf, evs |-> << >>]
        ELSE IF c.ret.kind = "Err" THEN [buf |-> c.buf, evs |-> << HmipDecodeError(c.ret) >>]
        ELSE LET rest == DrainStopsAtError(c.buf)
             IN  [buf |-> rest.buf, evs |-> << HmipMessage(c.ret.frame) >> \o rest.evs]

RECURSIVE DrainRejectsMalformed(_)
\* a loop over next_frame that reports a frame whose message does not decode
\* as a DecodeError
DrainRejectsMalformed(b) ==
    LET c == next_frame(b)
    IN  IF c.ret.kind = "None" THEN [buf |-> c.buf, evs |-> << >>]
        ELSE LET rest == DrainRejectsMalformed(c.buf)
                 ev == IF c.ret.kind = "Err" THEN HmipDecodeError(c.ret)
                       ELSE IF decode_message(c.ret.frame).kind = "Err"
                       THEN HmipDecodeError(DecodeError(decode_message(c.ret.frame).error, 0))
                       ELSE HmipMessage(c.ret.frame)
             IN  [buf |-> rest.buf, evs |-> << ev >> \o rest.evs]

\* a read branch that calls next_frame once after the push
DrainOnce(b) ==
    LET c == next_frame(b)
    IN  IF c.ret.kind = "None" THEN [buf |-> c.buf, evs |-> << >>]
        ELSE [buf |-> c.buf,
              evs |-> << IF c.ret.kind = "Frame" THEN HmipMessage(c.ret.frame)
                         ELSE HmipDecodeError(c.ret) >>]

RECURSIVE Drain(_)
\* the loop over next_frame after a push: one event for every frame and for
\* every error, until Ok(None)
Drain(b) ==
    LET c == next_frame(b)
    IN  IF c.ret.kind = "None" THEN [buf |-> c.buf, evs |-> << >>]
        ELSE LET rest == Drain(c.buf)
                 ev == IF c.ret.kind = "Frame" THEN HmipMessage(c.ret.frame)
                       ELSE HmipDecodeError(c.ret)
             IN  [buf |-> rest.buf, evs |-> << ev >> \o rest.evs]

\* a read branch that pushes the bytes and does not call next_frame
OnReadNoDrain(b, bytes) ==
    LET p == push(b, bytes)
    IN  IF p.ret.kind = "Err"
        THEN [buf |-> p.buf, evs |-> << EvRx(bytes), HmipDecodeError(p.ret) >>]
        ELSE [buf |-> p.buf, evs |-> << EvRx(bytes) >>]

\* what a read of bytes makes the loop emit, in order, and the decoder after
OnRead(b, bytes) ==
    LET p == push(b, bytes)
    IN  IF p.ret.kind = "Err"
        THEN [buf |-> p.buf, evs |-> << EvRx(bytes), HmipDecodeError(p.ret) >>]
        ELSE LET d == Drain(p.buf)
             IN  [buf |-> d.buf, evs |-> << EvRx(bytes) >> \o d.evs]

\* the caller of the decoder calls does nothing while the actor runs, and no
\* command runs
CallerIdle ==
    UNCHANGED << input, ret, op, out, dropsum, crcsum, nerr, overflowed, pc,
                 serial, handles, calls, tcp, HMIP_NEXT_SEQ >>

\* a connection that leaves the attempt counter as it is
ConnectKeepAttempt(ok) ==
    /\ faults + EmitFails(ok) <= input.faults
    /\ faults' = faults + EmitFails(ok)
    /\ attempt' = attempt
    /\ events' = Emit(events, EvConnected, ok)
    /\ apc' = IF ok THEN "connected" ELSE "exit"
    /\ buf' = NewDecoderBuf

\* a connection whose run_io_loop goes on with the decoder of the last one
ConnectKeepDecoder(ok) ==
    /\ faults + EmitFails(ok) <= input.faults
    /\ faults' = faults + EmitFails(ok)
    /\ attempt' = 0
    /\ events' = Emit(events, EvConnected, ok)
    /\ apc' = IF ok THEN "connected" ELSE "exit"
    /\ buf' = buf

\* attempt = 0; emit Connected; run_io_loop starts with a new decoder
Connect(ok) ==
    /\ faults + EmitFails(ok) <= input.faults
    /\ faults' = faults + EmitFails(ok)
    /\ attempt' = 0
    /\ events' = Emit(events, EvConnected, ok)
    /\ apc' = IF ok THEN "connected" ELSE "exit"
    /\ buf' = NewDecoderBuf

\* a failed attempt that publishes Reconnecting before Error
ReconnectSwapped(message, ok1, ok2, next) ==
    /\ faults + 1 + EmitFails(ok1) + EmitFails(ok2) <= input.faults
    /\ faults' = faults + 1 + EmitFails(ok1) + EmitFails(ok2)
    /\ attempt' = attempt + 1
    /\ delay_ms' = compute_backoff_ms(attempt')
    /\ events' = Emit(Emit(events, EvReconnecting(attempt', delay_ms'), ok2),
                      EvError(message), ok1)
    /\ apc' = next

\* a failed attempt that is published as Disconnected
ReconnectAsDisconnected(message, ok1, ok2, next) ==
    /\ faults + 1 + EmitFails(ok1) + EmitFails(ok2) <= input.faults
    /\ faults' = faults + 1 + EmitFails(ok1) + EmitFails(ok2)
    /\ attempt' = attempt + 1
    /\ delay_ms' = compute_backoff_ms(attempt')
    /\ events' = Emit(Emit(events, EvDisconnected, ok1),
                      EvReconnecting(attempt', delay_ms'), ok2)
    /\ apc' = next

\* a failed attempt: count it, compute the delay, emit Error and Reconnecting
\* (their results are ignored), then sleep (attempt stays far below u32::MAX,
\* where saturating_add would stop)
Reconnect(message, ok1, ok2, next) ==
    /\ faults + 1 + EmitFails(ok1) + EmitFails(ok2) <= input.faults
    /\ faults' = faults + 1 + EmitFails(ok1) + EmitFails(ok2)
    /\ attempt' = attempt + 1
    /\ delay_ms' = compute_backoff_ms(attempt')
    /\ events' = Emit(Emit(events, EvError(message), ok1),
                      EvReconnecting(attempt', delay_ms'), ok2)
    /\ apc' = next

\* head of the loop, first time: stream_opt.take() gives the initial stream
TakeStream ==
    /\ apc = "connecting"
    /\ stream_opt
    /\ stream_opt' = FALSE
    /\ \E ok \in BOOLEAN : Connect(ok)
    /\ UNCHANGED << wire, delay_ms, shutdown_tx, high_rx, normal_rx, writing, sent, hpc >>
    /\ CallerIdle

\* head of the loop, later: open_stream is called
OpenStream ==
    /\ apc = "connecting"
    /\ ~stream_opt
    /\ apc' = "opening"
    /\ UNCHANGED << wire, buf, stream_opt, attempt, delay_ms, shutdown_tx, high_rx,
                    normal_rx, writing, events, faults, sent, hpc >>
    /\ CallerIdle

\* open_stream returns Ok(stream)
OpenOk ==
    /\ apc = "opening"
    /\ \E ok \in BOOLEAN : Connect(ok)
    /\ UNCHANGED << wire, stream_opt, delay_ms, shutdown_tx, high_rx, normal_rx,
                    writing, sent, hpc >>
    /\ CallerIdle

\* open_stream returns Err(err)
OpenErr ==
    /\ apc = "opening"
    /\ \E ok1 \in BOOLEAN, ok2 \in BOOLEAN : Reconnect(MsgOpenFailed, ok1, ok2, "sleeping")
    /\ UNCHANGED << wire, buf, stream_opt, shutdown_tx, high_rx, normal_rx,
                    writing, sent, hpc >>
    /\ CallerIdle

\* an actor that makes its two queues anew for every attempt
SleepElapsedNewQueues ==
    /\ apc = "sleeping"
    /\ apc' = "connecting"
    /\ high_rx' = << >>
    /\ normal_rx' = << >>
    /\ UNCHANGED << wire, buf, stream_opt, attempt, delay_ms, shutdown_tx,
                    writing, events, faults, sent, hpc >>
    /\ CallerIdle

\* the backoff select: the sleep is over
SleepElapsed ==
    /\ apc = "sleeping"
    /\ apc' = "connecting"
    /\ UNCHANGED << wire, buf, stream_opt, attempt, delay_ms, shutdown_tx, high_rx,
                    normal_rx, writing, events, faults, sent, hpc >>
    /\ CallerIdle

\* the backoff select: the shutdown signal is there
SleepShutdown ==
    /\ apc = "sleeping"
    /\ shutdown_tx = "sent"
    /\ apc' = "exit"
    /\ UNCHANGED << wire, buf, stream_opt, attempt, delay_ms, shutdown_tx, high_rx,
                    normal_rx, writing, events, faults, sent, hpc >>
    /\ CallerIdle

\* a select without the shutdown branch: the signal leaves the worker where it is
SelectShutdownMissing ==
    /\ apc = "connected"
    /\ shutdown_tx = "sent"
    /\ UNCHANGED vars

\* the biased select of run_io_loop, first branch: shutdown_rx
SelectShutdown ==
    /\ apc = "connected"
    /\ shutdown_tx = "sent"
    /\ apc' = AfterExit("Shutdown")
    /\ UNCHANGED << wire, buf, stream_opt, attempt, delay_ms, shutdown_tx, high_rx,
                    normal_rx, writing, events, faults, sent, hpc >>
    /\ CallerIdle

\* second branch: high_rx.recv() gives a buffer, write_all starts
SelectHigh ==
    /\ apc = "connected"
    /\ shutdown_tx = "unsent"
    /\ high_rx # << >>
    /\ writing' = Head(high_rx)
    /\ high_rx' = Tail(high_rx)
    /\ apc' = "writing"
    /\ UNCHANGED << wire, buf, stream_opt, attempt, delay_ms, shutdown_tx,
                    normal_rx, events, faults, sent, hpc >>
    /\ CallerIdle

\* a select that takes a normal-priority buffer whatever the high queue holds
SelectNormalUnbiased ==
    /\ apc = "connected"
    /\ shutdown_tx = "unsent"
    /\ normal_rx # << >>
    /\ writing' = Head(normal_rx)
    /\ normal_rx' = Tail(normal_rx)
    /\ apc' = "writing"
    /\ UNCHANGED << wire, buf, stream_opt, attempt, delay_ms, shutdown_tx,
                    high_rx, events, faults, sent, hpc >>
    /\ CallerIdle

\* third branch: normal_rx.recv() gives a buffer, write_all starts
SelectNormal ==
    /\ apc = "connected"
    /\ shutdown_tx = "unsent"
    /\ high_rx = << >>
    /\ normal_rx # << >>
    /\ writing' = Head(normal_rx)
    /\ normal_rx' = Tail(normal_rx)
    /\ apc' = "writing"
    /\ UNCHANGED << wire, buf, stream_opt, attempt, delay_ms, shutdown_tx,
                    high_rx, events, faults, sent, hpc >>
    /\ CallerIdle

\* a write branch that ignores the result of emitting Tx
WriteOkIgnoresEmit ==
    /\ apc = "writing"
    /\ \E ok \in BOOLEAN :
          /\ faults + EmitFails(ok) <= input.faults
          /\ faults' = faults + EmitFails(ok)
          /\ events' = Emit(events, EvTx(Len(writing)), ok)
          /\ apc' = "connected"
    /\ writing' = << >>
    /\ UNCHANGED << wire, buf, stream_opt, attempt, delay_ms, shutdown_tx, high_rx,
                    normal_rx, sent, hpc >>
    /\ CallerIdle

\* write_all returns Ok within the timeout: emit Tx
WriteOk ==
    /\ apc = "writing"
    /\ \E ok \in BOOLEAN :
          /\ faults + EmitFails(ok) <= input.faults
          /\ faults' = faults + EmitFails(ok)
          /\ events' = Emit(events, EvTx(Len(writing)), ok)
          /\ apc' = IF ok THEN "connected" ELSE AfterExit("Shutdown")
    /\ writing' = << >>
    /\ UNCHANGED << wire, buf, stream_opt, attempt, delay_ms, shutdown_tx, high_rx,
                    normal_rx, sent, hpc >>
    /\ CallerIdle

\* a failed write that puts the buffer back for the next connection
WriteFailedRequeues ==
    /\ apc = "writing"
    /\ \E m \in { MsgWriteFailed, MsgWriteTimeout }, ok1 \in BOOLEAN, ok2 \in BOOLEAN :
          Reconnect(m, ok1, ok2, AfterExit("IoError"))
    /\ writing' = << >>
    /\ high_rx' = << writing >> \o high_rx
    /\ UNCHANGED << wire, buf, stream_opt, shutdown_tx, normal_rx, sent, hpc >>
    /\ CallerIdle

\* a failed write that ends the worker
WriteFailedEndsActor ==
    /\ apc = "writing"
    /\ \E m \in { MsgWriteFailed, MsgWriteTimeout }, ok1 \in BOOLEAN, ok2 \in BOOLEAN :
          Reconnect(m, ok1, ok2, AfterExit("Shutdown"))
    /\ writing' = << >>
    /\ UNCHANGED << wire, buf, stream_opt, shutdown_tx, high_rx, normal_rx, sent, hpc >>
    /\ CallerIdle

\* write_all returns Err, or the timeout of WRITE_TIMEOUT_MS is over: the
\* loop returns IoError
WriteFailed ==
    /\ apc = "writing"
    /\ \E m \in { MsgWriteFailed, MsgWriteTimeout }, ok1 \in BOOLEAN, ok2 \in BOOLEAN :
          Reconnect(m, ok1, ok2, AfterExit("IoError"))
    /\ writing' = << >>
    /\ UNCHANGED << wire, buf, stream_opt, shutdown_tx, high_rx, normal_rx, sent, hpc >>
    /\ CallerIdle

\* fourth branch: reader.read returns Ok(n), n > 0 (what the peer has sent, up
\* to the size of the read buffer): emit Rx, push, drain; the first event that
\* cannot be published (the k-th) ends the loop with Shutdown
ReadOk ==
    /\ apc = "connected"
    /\ shutdown_tx = "unsent"
    /\ high_rx = << >>
    /\ normal_rx = << >>
    /\ wire # << >>
    /\ LET n == Min(READ_BUFFER_SIZE, Len(wire))
           r == OnRead(buf, SubSeq(wire, 1, n))
       IN  /\ wire' = Advance(wire, n)
           /\ buf' = r.buf
           /\ \E k \in 0..Len(r.evs) :
                 /\ faults + EmitFails(k = 0) <= input.faults
                 /\ faults' = faults + EmitFails(k = 0)
                 /\ events' = events \o (IF k = 0 THEN r.evs ELSE SubSeq(r.evs, 1, k - 1))
                 /\ apc' = IF k = 0 THEN "connected" ELSE AfterExit("Shutdown")
    /\ UNCHANGED << stream_opt, attempt, delay_ms, shutdown_tx, high_rx, normal_rx,
                    writing, sent, hpc >>
    /\ CallerIdle

\* fourth branch: reader.read returns Ok(0) or Err: the loop returns IoError
ReadFailed ==
    /\ apc = "connected"
    /\ shutdown_tx = "unsent"
    /\ high_rx = << >>
    /\ normal_rx = << >>
    /\ \E m \in { MsgRemoteClosed, MsgReadFailed }, ok1 \in BOOLEAN, ok2 \in BOOLEAN :
          Reconnect(m, ok1, ok2, AfterExit("IoError"))
    /\ UNCHANGED << wire, buf, stream_opt, shutdown_tx, high_rx, normal_rx,
                    writing, sent, hpc >>
    /\ CallerIdle

\* after the loop: emit Disconnected (result ignored), the worker ends
EmitDisconnected ==
    /\ apc = "exit"
    /\ \E ok \in BOOLEAN :
          /\ faults + EmitFails(ok) <= input.faults
          /\ faults' = faults + EmitFails(ok)
          /\ events' = Emit(events, EvDisconnected, ok)
    /\ apc' = "terminated"
    /\ UNCHANGED << wire, buf, stream_opt, attempt, delay_ms, shutdown_tx, high_rx,
                    normal_rx, writing, sent, hpc >>
    /\ CallerIdle

\* CommActorHandle::shutdown: shutdown_tx.send(())
ShutdownSend ==
    /\ hpc = "idle"
    /\ shutdown_tx' = "sent"
    /\ hpc' = "joining"
    /\ UNCHANGED << wire, buf, apc, stream_opt, attempt, delay_ms, high_rx, normal_rx,
                    writing, events, faults, sent >>
    /\ CallerIdle

\* CommActorHandle::shutdown: join.await returns when the worker has ended
ShutdownJoined ==
    /\ hpc = "joining"
    /\ apc = "terminated"
    /\ hpc' = "returned"
    /\ UNCHANGED << wire, buf, apc, stream_opt, attempt, delay_ms, shutdown_tx, high_rx,
                    normal_rx, writing, events, faults, sent >>
    /\ CallerIdle

\* the k-th buffer a caller sends: k bytes
BufferOf(k) == [i \in 1..k |-> k]

\* a caller's try_send on tx_high succeeds
EnqueueHigh ==
    /\ sent < input.sends
    /\ apc # "terminated"
    /\ Len(high_rx) < HighQueueCapacity
    /\ high_rx' = Append(high_rx, BufferOf(sent + 1))
    /\ sent' = sent + 1
    /\ UNCHANGED << wire, buf, apc, stream_opt, attempt, delay_ms, shutdown_tx,
                    normal_rx, writing, events, faults, hpc >>
    /\ CallerIdle

\* a caller's try_send on tx_normal succeeds
EnqueueNormal ==
    /\ sent < input.sends
    /\ apc # "terminated"
    /\ Len(normal_rx) < NormalQueueCapacity
    /\ normal_rx' = Append(normal_rx, BufferOf(sent + 1))
    /\ sent' = sent + 1
    /\ UNCHANGED << wire, buf, apc, stream_opt, attempt, delay_ms, shutdown_tx,
                    high_rx, writing, events, faults, hpc >>
    /\ CallerIdle

(***************************************************************************)
(* SpecActor: one actor, a peer that sends a stream, callers that enqueue  *)
(* buffers and one that shuts the actor down.                              *)
(***************************************************************************)
\* what the peer sends over the connections of one run
ActorStreams ==
    { GoodCrc \o GoodPlain,
      SetByte(GoodCrc, Len(GoodCrc), 0) \o GoodPlain,
      \* the second read completes both frames
      PlainMax \o GoodPlain }

\* a run: the peer's stream, how many calls may fail and how many buffers the
\* callers enqueue
ActorRuns ==
    { [stream |-> s, faults |-> f, sends |-> MaxEnv - f] :
        s \in ActorStreams, f \in 0..MaxEnv }

ActorInit == \E in \in ActorRuns : DecNew(in, in.stream)

ActorNext ==
    \/ TakeStream
    \/ OpenStream
    \/ OpenOk
    \/ OpenErr
    \/ SleepElapsed
    \/ SleepShutdown
    \/ SelectShutdown
    \/ SelectHigh
    \/ SelectNormal
    \/ WriteOk
    \/ WriteFailed
    \/ ReadOk
    \/ ReadFailed
    \/ EmitDisconnected
    \/ ShutdownSend
    \/ ShutdownJoined
    \/ EnqueueHigh
    \/ EnqueueNormal

SpecActor == ActorInit /\ [][ActorNext]_vars

\* the state changes of the state machine
ActorTransitions ==
    { << "Connecting", "Connected" >>, << "Connecting", "Reconnecting" >>,
      << "Connected", "Reconnecting" >>, << "Reconnecting", "Connecting" >> }
    \cup { << st, "Shutdown" >> : st \in { "Connecting", "Connected", "Reconnecting" } }

\* a step in which the worker opens no stream, reads and writes nothing,
\* takes nothing from the queues and publishes nothing
WorkerQuiet ==
    /\ apc' # "opening"
    /\ stream_opt' = stream_opt
    /\ wire' = wire
    /\ buf' = buf
    /\ writing' = writing
    /\ IsPrefix(high_rx, high_rx')
    /\ IsPrefix(normal_rx, normal_rx')
    /\ attempt' = attempt
    /\ faults' = faults
    /\ events' = events

\* the last step of the worker: at most the Disconnected event is published
WorkerEnds ==
    /\ apc = "exit"
    /\ apc' = "terminated"
    /\ events' \in { events, Append(events, EvDisconnected) }
    /\ UNCHANGED << stream_opt, wire, buf, writing, high_rx, normal_rx, attempt >>

\* C10: the actor's state changes only along Connecting->Connected,
\* Connecting->Reconnecting, Connected->Reconnecting, Reconnecting->Connecting
\* and any state->Shutdown; once in Shutdown the actor stays there, and the
\* worker makes no connection attempt, read or write and publishes no event
\* other than the final Disconnected.
ActorStateMachine ==
    [][ /\ StateOf(apc') # StateOf(apc) =>
              << StateOf(apc), StateOf(apc') >> \in ActorTransitions
        /\ StateOf(apc) = "Shutdown" =>
              /\ StateOf(apc') = "Shutdown"
              /\ WorkerQuiet \/ WorkerEnds ]_vars

\* the kinds of the events published, in order
EventKinds == [i \in 1..Len(events) |-> events[i].kind]

\* C10 is reached: a worker that has ended after a run through every state
\* change: connected, connection lost, a reconnect that failed, a reconnect
\* that succeeded, shutdown, Disconnected.
ActorStateMachineWitness ==
    /\ apc = "terminated"
    /\ shutdown_tx = "sent"
    /\ EventKinds = << "Connected", "Error", "Reconnecting", "Error", "Reconnecting",
                       "Connected", "Disconnected" >>
    /\ events[5] = EvReconnecting(2, 800)

\* the events published by the step, in order
NewEvents == SubSeq(events', Len(events) + 1, Len(events'))

\* how many events of kind k the log holds from index i to index j
RECURSIVE CountKind(_, _, _)
CountKind(k, i, j) ==
    IF i > j THEN 0
    ELSE (IF events[j].kind = k THEN 1 ELSE 0) + CountKind(k, i, j - 1)

\* the index of the last Connected event before index i, 0 when there is none
RECURSIVE LastConnectedBefore(_)
LastConnectedBefore(i) ==
    IF i <= 1 THEN 0
    ELSE IF events[i - 1].kind = "Connected" THEN i - 1
    ELSE LastConnectedBefore(i - 1)

\* min(200 * 2^min(n,6), 5000)
BackoffOf(n) ==
    IF Doubled(200, IF n < 6 THEN n ELSE 6) < 5000
    THEN Doubled(200, IF n < 6 THEN n ELSE 6) ELSE 5000

\* C11: the attempt counter is set to 0 by every successful connection and
\* goes up by one with every failed open and every connection lost with
\* IoError, and changes in no other step; every Reconnecting event carries
\* that counter (>= 1) and delay_ms = min(200 * 2^min(attempt,6), 5000); in a
\* run where every event was published the counter of a Reconnecting event is
\* the number of failures since the last Connected.
AttemptCounter ==
    /\ [][ /\ (StateOf(apc) = "Connecting" /\ StateOf(apc') = "Connected") => attempt' = 0
           /\ (StateOf(apc) # "Reconnecting" /\ StateOf(apc') = "Reconnecting") =>
                 attempt' = attempt + 1
           /\ StateOf(apc') \notin { "Connected", "Reconnecting" } => attempt' \in { attempt, 0 }
           /\ StateOf(apc') = StateOf(apc) => attempt' = attempt
           /\ \A i \in 1..Len(NewEvents) :
                 NewEvents[i].kind = "Reconnecting" =>
                    NewEvents[i] = EvReconnecting(attempt', BackoffOf(attempt')) ]_vars
    /\ [](\A i \in 1..Len(events) :
             events[i].kind = "Reconnecting" =>
                /\ events[i].attempt >= 1
                /\ events[i].delay_ms = BackoffOf(events[i].attempt)
                /\ faults = CountKind("Error", 1, Len(events)) =>
                      events[i].attempt =
                         CountKind("Reconnecting", LastConnectedBefore(i) + 1, i))

\* C11 is reached: a connection lost, a reconnect that succeeded and reset the
\* counter, and a second loss that is attempt 1 again.
AttemptCounterWitness ==
    /\ EventKinds = << "Connected", "Error", "Reconnecting", "Connected", "Error",
                       "Reconnecting" >>
    /\ events[3] = EvReconnecting(1, 400)
    /\ events[6] = EvReconnecting(1, 400)
    /\ attempt = 1

\* the messages of the transient failures
TransientMessages ==
    { MsgOpenFailed, MsgWriteFailed, MsgWriteTimeout, MsgRemoteClosed, MsgReadFailed }

\* the step in which an open, a write or a read fails
TransientFailure == OpenErr \/ WriteFailed \/ ReadFailed

\* a is b with some elements left out (a and b of at most two elements)
SubPair(a, b) ==
    \/ a = b
    \/ a = << >>
    \/ Len(b) = 2 /\ (a = << b[1] >> \/ a = << b[2] >>)

\* no emit has failed so far
AllPublished == faults = CountKind("Error", 1, Len(events))

\* C12: a failed open, write error, write timeout, read error or remote close
\* makes the worker emit Error and then Reconnecting in one step, nothing in
\* between, and go to the backoff sleep, never to its end; the log gets both
\* events in that order when the emits succeed (their results are ignored),
\* so while no emit has failed every Error event but a last one still to be
\* followed is followed at once by a Reconnecting event.
ErrorThenReconnecting ==
    /\ [][ TransientFailure =>
              /\ apc' = "sleeping"
              /\ \E m \in TransientMessages :
                    LET pair == << EvError(m), EvReconnecting(attempt', delay_ms') >>
                    IN  /\ SubPair(NewEvents, pair)
                        /\ faults' = faults + 1 => NewEvents = pair ]_vars
    /\ [](AllPublished =>
             \A i \in 1..Len(events) :
                /\ events[i].kind = "Error" =>
                      /\ i < Len(events)
                      /\ events[i + 1].kind = "Reconnecting"
                      /\ events[i].message \in TransientMessages
                /\ events[i].kind = "Reconnecting" =>
                      /\ i > 1
                      /\ events[i - 1].kind = "Error")

\* C12 is reached: a connection closed by the peer and then a reconnect that
\* failed, each published as Error and Reconnecting, the worker asleep.
ErrorThenReconnectingWitness ==
    /\ apc = "sleeping"
    /\ Len(events) = 5
    /\ events[2] = EvError(MsgRemoteClosed)
    /\ events[3] = EvReconnecting(1, 400)
    /\ events[4] = EvError(MsgOpenFailed)
    /\ events[5] = EvReconnecting(2, 800)

\* a step of the worker from the select of run_io_loop: it leaves the select,
\* or it has processed a read (the steps of callers and of the shutdown
\* caller change neither)
SelectStep == apc = "connected" /\ (apc' # "connected" \/ wire' # wire \/ events' # events)

\* what the select step served
ServedShutdown == apc' = "exit" /\ events' = events /\ wire' = wire /\ faults' = faults
ServedHigh == apc' = "writing" /\ high_rx # << >> /\ high_rx' = Tail(high_rx)
ServedNormal == apc' = "writing" /\ normal_rx # << >> /\ normal_rx' = Tail(normal_rx)
ServedRead == ~ServedShutdown /\ ~ServedHigh /\ ~ServedNormal

\* C13: at a selection point of the Connected loop a pending shutdown is
\* served before any write or read; a high-priority buffer is written before
\* any normal-priority buffer; a read is processed only when both queues are
\* empty; no normal-priority buffer is taken while the high queue holds one.
BiasedSelect ==
    [][ SelectStep =>
           /\ shutdown_tx = "sent" =>
                 /\ ServedShutdown
                 /\ UNCHANGED << high_rx, normal_rx, wire, buf, writing >>
           /\ (shutdown_tx = "unsent" /\ high_rx # << >>) =>
                 /\ ServedHigh
                 /\ writing' = Head(high_rx)
                 /\ UNCHANGED << normal_rx, wire >>
           /\ (shutdown_tx = "unsent" /\ high_rx = << >> /\ normal_rx # << >>) =>
                 /\ ServedNormal
                 /\ writing' = Head(normal_rx)
                 /\ UNCHANGED << high_rx, wire >>
           /\ ServedNormal => high_rx = << >>
           /\ ServedRead =>
                 /\ shutdown_tx = "unsent"
                 /\ high_rx = << >>
                 /\ normal_rx = << >> ]_vars

\* C13 is reached: with a normal-priority buffer enqueued first, a
\* high-priority buffer enqueued second and bytes of the peer waiting to be
\* read, the select has taken the high-priority buffer.
BiasedSelectWitness ==
    /\ apc = "writing"
    /\ writing = BufferOf(2)
    /\ normal_rx = << BufferOf(1) >>
    /\ high_rx = << >>
    /\ wire # << >>
    /\ shutdown_tx = "unsent"

\* where the worker is suspended: in the select of run_io_loop, in write_all
\* under its timeout, in open_stream, in the backoff select
SuspensionPoints == { "connected", "writing", "opening", "sleeping" }

\* C14: once the shutdown signal has been sent, a worker at a suspension
\* point starts no new connection attempt, write or read and emits no
\* Connected, Error or Reconnecting event; it only completes the blocking
\* operation in progress.
ShutdownObserved ==
    [][ (shutdown_tx = "sent" /\ apc \in SuspensionPoints) =>
           /\ \A i \in 1..Len(NewEvents) :
                 NewEvents[i].kind \notin { "Connected", "Error", "Reconnecting" }
           /\ apc' = "opening" => apc = "opening"
           /\ apc' = "writing" => apc = "writing"
           /\ wire' = wire ]_vars

(***************************************************************************)
(* SpecActorLive: SpecActor with a worker that is scheduled, and whose     *)
(* open, read and write calls in progress return.                          *)
(***************************************************************************)
\* the worker is scheduled: it leaves the head of its loop, a select whose
\* shutdown branch is ready and the end of its loop; the open and the write
\* in progress return; the backoff select ends
ActorFairness ==
    /\ WF_vars(TakeStream)
    /\ WF_vars(OpenStream)
    /\ WF_vars(OpenOk \/ OpenErr)
    /\ WF_vars(WriteOk \/ WriteFailed)
    /\ WF_vars(SleepElapsed \/ SleepShutdown)
    /\ WF_vars(SelectShutdown)
    /\ WF_vars(EmitDisconnected)

SpecActorLive == ActorInit /\ [][ActorNext]_vars /\ ActorFairness

\* C15: once CommActorHandle::shutdown has sent the signal the worker ends,
\* wherever it was (Connecting, Connected, the backoff sleep); the shutdown
\* call returns only when the worker has ended.
ShutdownLiveness ==
    /\ (shutdown_tx = "sent") ~> (apc = "terminated")
    /\ [](hpc = "returned" => apc = "terminated")

\* C15 is reached: a shutdown that found the worker in its backoff sleep has
\* returned; the last events are Reconnecting and Disconnected.
ShutdownLivenessWitness ==
    /\ hpc = "returned"
    /\ apc = "terminated"
    /\ Len(events) >= 2
    /\ events[Len(events) - 1].kind = "Reconnecting"
    /\ events[Len(events)] = EvDisconnected

\* C16: the worker ends only through the step after its loop, which emits
\* Disconnected once (published unless that emit fails); no other step
\* publishes Disconnected, so the log holds it at most once, as its last
\* event, and only when the worker has ended; a lost connection publishes
\* Error and Reconnecting instead.
FinalNotification ==
    /\ [][ /\ apc' = "terminated" /\ apc # "terminated" =>
                 /\ apc = "exit"
                 /\ SubPair(NewEvents, << EvDisconnected >>)
                 /\ faults' = faults => NewEvents = << EvDisconnected >>
           /\ ~(apc' = "terminated" /\ apc # "terminated") =>
                 \A i \in 1..Len(NewEvents) : NewEvents[i].kind # "Disconnected" ]_vars
    /\ [](/\ CountKind("Disconnected", 1, Len(events)) <= 1
          /\ \A i \in 1..Len(events) :
                events[i].kind = "Disconnected" => (i = Len(events) /\ apc = "terminated")
          /\ (apc = "terminated" /\ AllPublished) =>
                (events # << >> /\ events[Len(events)] = EvDisconnected))

\* C16 is reached: the worker has ended on the path of a lost observer (the
\* Connected emit of a reconnect failed, no shutdown was sent) and Disconnected
\* is the last event, after the Error and Reconnecting of the lost connection.
FinalNotificationWitness ==
    /\ apc = "terminated"
    /\ shutdown_tx = "unsent"
    /\ EventKinds = << "Connected", "Error", "Reconnecting", "Disconnected" >>

(***************************************************************************)
(* The commands of one transport (commands.rs): connect, disconnect and    *)
(* send on CommState.serial; the tcp commands are the same on              *)
(* CommState.tcp.  Each handle's worker is kept by what the commands can   *)
(* see of it: its two queues, its shutdown signal and whether it has       *)
(* ended.  The lock on the slot is held over one step with no await in it, *)
(* so each locked block is one action.                                     *)
(***************************************************************************)
\* the messages of the send commands
MsgNotConnected == "Serial port not connected"
MsgQueueFull == "Serial write queue is full"
MsgClosed == "Serial connection is closed"

\* a command of the serial transport, and a worker, leave the decoder, the
\* actor of SpecActor, the TCP slot and the sequence counter alone
CommandsFrame == UNCHANGED << dvars, avars, tcp, HMIP_NEXT_SEQ >>

\* the actor spawn_serial_actor returns: empty channels, the signal unsent,
\* the worker running
SpawnedActor ==
    [worker |-> "running", shutdown_tx |-> "unsent", tx_high |-> << >>,
     tx_normal |-> << >>, failed |-> FALSE]

\* the handle the next spawn returns
NextHandle ==
    CHOOSE h \in Handles :
        /\ handles[h].worker = "unspawned"
        /\ \A g \in Handles : g < h => handles[g].worker # "unspawned"

\* the invocation c has not started, and the earlier ones have
Idle(c) ==
    /\ c <= input.calls
    /\ calls[c].pc = "idle"
    /\ \A d \in Calls : d < c => calls[d].pc # "idle"

\* the command returns
Return(call, result) == [call EXCEPT !.pc = "done", !.result = result]

\* `if let Some(old) = old { old.shutdown().await }` and the return after it
AfterRemoval(call, old) ==
    IF old = 0 THEN Return(call, "Ok")
    ELSE [call EXCEPT !.pc = "shutdown", !.old = old]

\* priority.unwrap_or_default()
PriorityOf(priority) == IF priority = "None" THEN "Normal" ELSE priority

\* a try_send that drops the buffer of a full channel and reports success
try_send_silent(queue, closed, capacity, data) ==
    IF closed THEN [result |-> MsgClosed, queue |-> queue]
    ELSE IF Len(queue) >= capacity THEN [result |-> "Ok", queue |-> queue]
    ELSE [result |-> "Ok", queue |-> Append(queue, data)]

\* Sender::try_send on a channel of the given capacity whose receiver is
\* gone (closed) or not, and the text the command maps the outcome to
try_send(queue, closed, capacity, data) ==
    IF closed THEN [result |-> MsgClosed, queue |-> queue]
    ELSE IF Len(queue) >= capacity THEN [result |-> MsgQueueFull, queue |-> queue]
    ELSE [result |-> "Ok", queue |-> Append(queue, data)]

\* connect_serial up to its lock: open_stream fails and the command returns
\* the error, or the actor is spawned on the stream
ConnectSpawn(c, ok) ==
    /\ Idle(c)
    /\ IF ok
       THEN /\ handles' = [handles EXCEPT ![NextHandle] = SpawnedActor]
            /\ calls' = [calls EXCEPT ![c] =
                            [NoCall EXCEPT !.cmd = "connect", !.pc = "replace", !.h = NextHandle]]
       ELSE /\ handles' = handles
            /\ calls' = [calls EXCEPT ![c] =
                            Return([NoCall EXCEPT !.cmd = "connect"], "Err")]
    /\ serial' = serial
    /\ CommandsFrame

\* connect_serial: serial_lock.replace(handle)
ConnectReplace(c) ==
    /\ calls[c].pc = "replace"
    /\ serial' = calls[c].h
    /\ calls' = [calls EXCEPT ![c] = AfterRemoval(calls[c], serial)]
    /\ handles' = handles
    /\ CommandsFrame

\* disconnect_serial: serial_lock.take()
DisconnectTake(c) ==
    /\ Idle(c)
    /\ serial' = 0
    /\ calls' = [calls EXCEPT ![c] = AfterRemoval([NoCall EXCEPT !.cmd = "disconnect"], serial)]
    /\ handles' = handles
    /\ CommandsFrame

\* CommActorHandle::shutdown of the removed handle: the signal is sent
ShutdownSendOld(c) ==
    /\ calls[c].pc = "shutdown"
    /\ handles' = [handles EXCEPT ![calls[c].old].shutdown_tx = "sent"]
    /\ calls' = [calls EXCEPT ![c].pc = "join"]
    /\ serial' = serial
    /\ CommandsFrame

\* a shutdown that returns without waiting for the worker
ShutdownJoinOldNoWait(c) ==
    /\ calls[c].pc = "join"
    /\ calls' = [calls EXCEPT ![c] = Return(calls[c], "Ok")]
    /\ UNCHANGED << serial, handles >>
    /\ CommandsFrame

\* CommActorHandle::shutdown of the removed handle: join.await returns when
\* the worker has ended, and the command returns
ShutdownJoinOld(c) ==
    /\ calls[c].pc = "join"
    /\ handles[calls[c].old].worker = "terminated"
    /\ calls' = [calls EXCEPT ![c] = Return(calls[c], "Ok")]
    /\ UNCHANGED << serial, handles >>
    /\ CommandsFrame

\* send_serial_data under the lock: no handle and the command returns the
\* error, or the two senders of the installed handle are cloned
SendClone(c, priority) ==
    /\ Idle(c)
    /\ calls' = [calls EXCEPT ![c] =
                    LET call == [NoCall EXCEPT !.cmd = "send", !.priority = priority,
                                               !.data = BufferOf(c)]
                    IN  IF serial = 0 THEN Return(call, MsgNotConnected)
                        ELSE [call EXCEPT !.pc = "try_send", !.h = serial]]
    /\ UNCHANGED << serial, handles >>
    /\ CommandsFrame

\* send_serial_data after the lock: try_send on the sender the priority
\* selects
SendTrySend(c) ==
    /\ calls[c].pc = "try_send"
    /\ LET a == handles[calls[c].h]
           closed == a.worker = "terminated"
       IN  IF PriorityOf(calls[c].priority) = "High"
           THEN LET r == try_send(a.tx_high, closed, HighQueueCapacity, calls[c].data)
                IN  /\ handles' = [handles EXCEPT ![calls[c].h].tx_high = r.queue]
                    /\ calls' = [calls EXCEPT ![c] = Return(calls[c], r.result)]
           ELSE LET r == try_send(a.tx_normal, closed, NormalQueueCapacity, calls[c].data)
                IN  /\ handles' = [handles EXCEPT ![calls[c].h].tx_normal = r.queue]
                    /\ calls' = [calls EXCEPT ![c] = Return(calls[c], r.result)]
    /\ serial' = serial
    /\ CommandsFrame

\* the worker's task is over: its receivers are dropped with what they held
Ended(a, failed) ==
    [a EXCEPT !.worker = "terminated", !.tx_high = << >>, !.tx_normal = << >>,
              !.failed = failed]

\* the worker's select takes a buffer from the high queue (no shutdown
\* signal is pending) and writes it
WorkerRecvHigh(h) ==
    /\ handles[h].worker = "running"
    /\ handles[h].shutdown_tx = "unsent"
    /\ handles[h].tx_high # << >>
    /\ handles' = [handles EXCEPT ![h].tx_high = Tail(@)]
    /\ UNCHANGED << serial, calls >>
    /\ CommandsFrame

\* the worker's select takes a buffer from the normal queue (no shutdown
\* signal is pending, the high queue is empty) and writes it
WorkerRecvNormal(h) ==
    /\ handles[h].worker = "running"
    /\ handles[h].shutdown_tx = "unsent"
    /\ handles[h].tx_high = << >>
    /\ handles[h].tx_normal # << >>
    /\ handles' = [handles EXCEPT ![h].tx_normal = Tail(@)]
    /\ UNCHANGED << serial, calls >>
    /\ CommandsFrame

\* the worker observes the shutdown signal, emits Disconnected and ends
WorkerShutdown(h) ==
    /\ handles[h].worker = "running"
    /\ handles[h].shutdown_tx = "sent"
    /\ handles' = [handles EXCEPT ![h] = Ended(@, @.failed)]
    /\ UNCHANGED << serial, calls >>
    /\ CommandsFrame

\* an emit of the worker fails (the window is gone): the worker leaves its
\* loop and ends
WorkerEmitFailed(h) ==
    /\ handles[h].worker = "running"
    /\ handles' = [handles EXCEPT ![h] = Ended(@, TRUE)]
    /\ UNCHANGED << serial, calls >>
    /\ CommandsFrame

(***************************************************************************)
(* SpecCommands: the commands of one transport, invoked concurrently, and  *)
(* the workers of the handles they spawn.                                  *)
(***************************************************************************)
\* n buffers that earlier sends have left on a queue
Backlog(n) == [i \in 1..n |-> BufferOf(1)]

\* a run: whether a handle is installed at its start, what its queues hold,
\* and how many commands are invoked
CommandRuns ==
    { [installed |-> b, high |-> 0, normal |-> 0, calls |-> MaxCalls] : b \in BOOLEAN }
    \cup { [installed |-> TRUE, high |-> HighQueueCapacity, normal |-> 0,
            calls |-> MaxCalls - 1],
           [installed |-> TRUE, high |-> 0, normal |-> NormalQueueCapacity,
            calls |-> MaxCalls - 1] }

CommandsInit ==
    \E run \in CommandRuns :
        /\ input = run
        /\ wire = << >>
        /\ buf = NewDecoderBuf
        /\ ret = OkUnit
        /\ op = "new"
        /\ out = << >>
        /\ dropsum = 0
        /\ crcsum = 0
        /\ nerr = 0
        /\ overflowed = FALSE
        /\ pc = "done"
        /\ ActorNew
        /\ serial = IF run.installed THEN 1 ELSE 0
        /\ handles = [h \in Handles |->
                        IF h = 1 /\ run.installed
                        THEN [SpawnedActor EXCEPT !.tx_high = Backlog(run.high),
                                                  !.tx_normal = Backlog(run.normal)]
                        ELSE NoActor]
        /\ calls = [c \in Calls |-> NoCall]
        /\ tcp = 0
        /\ HMIP_NEXT_SEQ = U32(0, 1)

Priorities == { "None", "High", "Normal" }

CommandsNext ==
    \/ \E c \in Calls, ok \in BOOLEAN : ConnectSpawn(c, ok)
    \/ \E c \in Calls : ConnectReplace(c)
    \/ \E c \in Calls : DisconnectTake(c)
    \/ \E c \in Calls : ShutdownSendOld(c)
    \/ \E c \in Calls : ShutdownJoinOld(c)
    \/ \E c \in Calls, priority \in Priorities : SendClone(c, priority)
    \/ \E c \in Calls : SendTrySend(c)
    \/ \E h \in Handles : WorkerRecvHigh(h)
    \/ \E h \in Handles : WorkerRecvNormal(h)
    \/ \E h \in Handles : WorkerShutdown(h)
    \/ \E h \in Handles : WorkerEmitFailed(h)

SpecCommands == CommandsInit /\ [][CommandsNext]_vars

\* C17: when a connect replaces the installed handle by a new one, the old
\* handle's worker has already ended: no step installs a new handle while
\* the worker of the handle it replaces is still running.
HandleSwapOrdering ==
    [][ (serial # 0 /\ serial' # 0 /\ serial' # serial) =>
            handles[serial].worker = "terminated" ]_vars

\* the step in which the send c returns with the given result
SendReturns(c, result) ==
    /\ calls[c].pc = "try_send"
    /\ calls'[c].pc = "done"
    /\ calls'[c].result = result

\* C18: however sends interleave with connects and disconnects, a send that
\* reports success has enqueued onto the channel of the handle that is
\* installed at that moment and whose shutdown has not been initiated.
NoStaleChannelUse ==
    [][ \A c \in Calls :
            SendReturns(c, "Ok") =>
                /\ serial = calls[c].h
                /\ handles[calls[c].h].shutdown_tx = "unsent" ]_vars

\* every command invoked so far has returned
Quiescent == \A c \in Calls : calls[c].pc \in { "idle", "done" }

\* the handles whose worker is running
RunningWorkers == { h \in Handles : handles[h].worker = "running" }

\* every handle that was spawned and is not installed has been sent the
\* shutdown signal and its worker has ended
RemovedAwaited ==
    \A h \in Handles :
        (handles[h].worker # "unspawned" /\ h # serial) =>
            (handles[h].worker = "terminated" /\ handles[h].shutdown_tx = "sent")

\* C19 as stated: once the connects and disconnects invoked have returned,
\* one worker runs if a handle is installed and none otherwise, and every
\* worker whose handle was replaced or taken has ended.
NoOrphanedWorkers ==
    Quiescent =>
        /\ Cardinality(RunningWorkers) = IF serial # 0 THEN 1 ELSE 0
        /\ RemovedAwaited

\* C19: once the commands invoked have returned, no worker runs besides the
\* installed handle's; that one runs unless it has ended by itself on a
\* failed emit (no shutdown signal was sent to it); every worker whose
\* handle was replaced or taken has been signalled and has ended.
NoOrphanedWorkersUnlessFailed ==
    Quiescent =>
        /\ RunningWorkers = IF serial # 0 /\ ~handles[serial].failed THEN { serial } ELSE { }
        /\ serial # 0 => handles[serial].shutdown_tx = "unsent"
        /\ RemovedAwaited

\* C19 is reached: two connects have returned, the second has replaced the
\* handle of the first and awaited its worker; one worker runs, the
\* installed one.
NoOrphanedWorkersWitness ==
    /\ Quiescent
    /\ \A c \in Calls : calls[c].cmd = "connect" /\ calls[c].result = "Ok"
    /\ \E c \in Calls : calls[c].old # 0 /\ handles[calls[c].old].worker = "terminated"
    /\ serial # 0
    /\ RunningWorkers = { serial }

\* the step in which the invocation c starts as a send
SendStarts(c) == calls[c].pc = "idle" /\ calls'[c].cmd = "send"

\* what the send c finds when it calls try_send: the queue its priority tag
\* selects (Normal when absent), that queue's capacity, the other queue
SendTarget(c) ==
    LET a == handles[calls[c].h]
        high == calls[c].priority = "High"
    IN  [high |-> high,
         closed |-> a.worker = "terminated",
         queue |-> IF high THEN a.tx_high ELSE a.tx_normal,
         capacity |-> IF high THEN HighQueueCapacity ELSE NormalQueueCapacity]

\* the queues of handle h after the step: the one the send selected, the other
SelectedQueueAfter(c) ==
    IF calls[c].priority = "High" THEN handles'[calls[c].h].tx_high
    ELSE handles'[calls[c].h].tx_normal

OtherQueueUnchanged(c) ==
    IF calls[c].priority = "High"
    THEN handles'[calls[c].h].tx_normal = handles[calls[c].h].tx_normal
    ELSE handles'[calls[c].h].tx_high = handles[calls[c].h].tx_high

\* C20: a send with no installed handle returns 'not connected'; a send to a
\* channel holding its capacity (64 high, 256 normal) returns 'queue is
\* full' and leaves the queues as they were; a send to a channel whose
\* receiver is gone returns 'closed'; the three texts differ from each other;
\* otherwise the buffer is appended to the queue the priority tag selects
\* (Normal when absent) and the send reports success.  A send waits for
\* nothing: its two steps are enabled whenever it is at them.  No queue ever
\* holds more than 64 (high) or 256 (normal) buffers.
EnqueueContract ==
    /\ [][ \A c \in Calls :
             /\ (SendStarts(c) /\ serial = 0) =>
                    /\ calls'[c].pc = "done"
                    /\ calls'[c].result = MsgNotConnected
                    /\ handles' = handles
             /\ (SendStarts(c) /\ serial # 0) =>
                    /\ calls'[c].pc = "try_send"
                    /\ calls'[c].h = serial
                    /\ handles' = handles
             /\ (calls[c].pc = "try_send" /\ calls'[c] # calls[c]) =>
                    LET t == SendTarget(c)
                    IN  /\ calls'[c].pc = "done"
                        /\ OtherQueueUnchanged(c)
                        /\ t.closed =>
                              /\ calls'[c].result = MsgClosed
                              /\ handles' = handles
                        /\ (~t.closed /\ Len(t.queue) >= t.capacity) =>
                              /\ calls'[c].result = MsgQueueFull
                              /\ handles' = handles
                        /\ (~t.closed /\ Len(t.queue) < t.capacity) =>
                              /\ calls'[c].result = "Ok"
                              /\ SelectedQueueAfter(c) = Append(t.queue, calls[c].data) ]_vars
    /\ [](\A c \in Calls :
             /\ calls[c].pc = "try_send" => ENABLED SendTrySend(c)
             /\ Idle(c) => \A priority \in Priorities : ENABLED SendClone(c, priority))
    /\ [](\A h \in Handles :
             /\ Len(handles[h].tx_high) <= HighQueueCapacity
             /\ Len(handles[h].tx_normal) <= NormalQueueCapacity)
    /\ [](Cardinality({ MsgNotConnected, MsgQueueFull, MsgClosed, "Ok" }) = 4)

\* C20 is reached: a send with the High tag has found the high queue holding
\* 64 buffers and has returned 'queue is full'; the queue still holds 64.
EnqueueContractWitness ==
    \E c \in Calls :
        /\ calls[c].cmd = "send"
        /\ calls[c].priority = "High"
        /\ calls[c].result = MsgQueueFull
        /\ Len(handles[calls[c].h].tx_high) = HighQueueCapacity

(***************************************************************************)
(* SpecActorDecode: the actor of SpecActor with a peer whose stream is     *)
(* damaged in each of the ways next_frame reports.                         *)
(***************************************************************************)
\* a damaged stretch and then a valid frame
DamagedStreams ==
    { \* the stored CRC32 of a frame is wrong
      SetByte(GoodCrc, Len(GoodCrc), 0) \o GoodPlain,
      \* noise before the magic
      << 1, 2 >> \o GoodPlain,
      \* payload_len = max_payload_len + 1
      SetByte(GoodPlain, 13, max_payload_len + 1) \o GoodPlain,
      \* version byte 2
      SetByte(GoodPlain, 5, 2) \o GoodPlain }

DecodeRuns ==
    { [stream |-> s, faults |-> f, sends |-> MaxEnv - f] :
        s \in DamagedStreams, f \in 0..MaxEnv }

DecodeInit == \E in \in DecodeRuns : DecNew(in, in.stream)

SpecActorDecode == DecodeInit /\ [][ActorNext]_vars

\* the step is a read that returned bytes
ReadStep == apc = "connected" /\ wire' # wire

\* the bytes the read of the step returned
BytesRead == SubSeq(wire, 1, Len(wire) - Len(wire'))

RECURSIVE Replays(_, _)
\* evs is what the decoder holding b reports, call after call of next_frame,
\* until it returns Ok(None): a Message for each frame, a DecodeError with
\* the error's text and dropped_bytes for each error
Replays(b, evs) ==
    LET c == next_frame(b)
    IN  IF evs = << >> THEN c.ret.kind = "None"
        ELSE /\ c.ret.kind # "None"
             /\ c.ret.kind = "Frame" => evs[1].kind = "Message"
             /\ c.ret.kind = "Err" =>
                   evs[1] = [kind |-> "DecodeError", message |-> c.ret.message,
                             dropped_bytes |-> c.ret.dropped_bytes]
             /\ Replays(c.buf, Tail(evs))

\* C21: a read whose bytes make the decoder report errors does not end the
\* Connected loop: the step leaves the loop only when an emit fails (then
\* towards the worker's end, never as a lost connection), and when every
\* emit succeeds the loop stays Connected having published Rx and then,
\* for a push that overflows, one DecodeError with that error's
\* dropped_bytes, otherwise one event per next_frame result up to Ok(None),
\* each error as a DecodeError with its text and dropped_bytes.
DecodeErrorsKeepConnection ==
    [][ ReadStep =>
          /\ apc' \in { "connected", "exit" }
          /\ apc' = "exit" => faults' = faults + 1
          /\ faults' = faults =>
                /\ apc' = "connected"
                /\ NewEvents # << >>
                /\ NewEvents[1] = EvRx(BytesRead)
                /\ LET p == push(buf, BytesRead)
                   IN  IF p.ret.kind = "Err"
                       THEN Tail(NewEvents) =
                               << [kind |-> "DecodeError", message |-> p.ret.message,
                                   dropped_bytes |-> p.ret.dropped_bytes] >>
                       ELSE /\ Replays(p.buf, Tail(NewEvents))
                            /\ next_frame(buf').ret.kind = "None" ]_vars

\* C21 is reached: a DecodeError was published, the loop went on reading and
\* later published the Message of the frame that followed the damage.
DecodeErrorsKeepConnectionWitness ==
    /\ apc = "connected"
    /\ \E i, j, k \in 1..Len(events) :
          /\ i < j /\ j < k
          /\ events[i].kind = "DecodeError"
          /\ events[j].kind = "Rx"
          /\ events[k].kind = "Message"
          /\ \A n \in 1..k : events[n].kind \notin { "Error", "Reconnecting" }

RECURSIVE FramesOf(_)
\* the frames a decoder holding b returns, call after call of next_frame,
\* until it returns Ok(None)
FramesOf(b) ==
    LET c == next_frame(b)
    IN  IF c.ret.kind = "None" THEN << >>
        ELSE IF c.ret.kind = "Frame" THEN << c.ret.frame >> \o FramesOf(c.buf)
        ELSE FramesOf(c.buf)

RECURSIVE NextFrameErrors(_)
\* how many of those calls return an error
NextFrameErrors(b) ==
    LET c == next_frame(b)
    IN  IF c.ret.kind = "None" THEN 0
        ELSE (IF c.ret.kind = "Err" THEN 1 ELSE 0) + NextFrameErrors(c.buf)

\* the events of one kind in a sequence of events, in order
OfKind(evs, kind) == SelectSeq(evs, LAMBDA e : e.kind = kind)

\* C22: in a read whose emits all succeed, every frame the decoder extracts
\* produces exactly one Message event, in order, carrying that frame's
\* header; when decode_message fails for the frame the summary is Raw with
\* the frame's msg_type and payload length; the loop stays Connected and
\* publishes no DecodeError beyond those of next_frame's own errors.
MalformedMessageIsRaw ==
    [][ (ReadStep /\ faults' = faults /\ push(buf, BytesRead).ret.kind # "Err") =>
          LET b == push(buf, BytesRead).buf
              frames == FramesOf(b)
              messages == OfKind(NewEvents, "Message")
          IN  /\ apc' = "connected"
              /\ Len(messages) = Len(frames)
              /\ Len(OfKind(NewEvents, "DecodeError")) = NextFrameErrors(b)
              /\ \A i \in 1..Len(frames) :
                    /\ messages[i].header = frames[i].header
                    /\ decode_message(frames[i]).kind = "Err" =>
                          messages[i].summary =
                              [kind |-> "Raw", msg_type |-> frames[i].header.msg_type,
                               payload_len |-> Len(frames[i].payload)] ]_vars

\* C22 is reached: an EVENT frame with a short payload and a HEARTBEAT frame
\* with an empty payload (neither decodes) have each been published as a
\* Message with a Raw summary, with no DecodeError and the loop Connected.
MalformedMessageIsRawWitness ==
    /\ apc = "connected"
    /\ OfKind(events, "DecodeError") = << >>
    /\ LET messages == OfKind(events, "Message")
       IN  /\ Len(messages) = 2
           /\ messages[1].header.msg_type = EVENT
           /\ messages[1].summary =
                 [kind |-> "Raw", msg_type |-> EVENT, payload_len |-> max_payload_len]
           /\ messages[2].header.msg_type = HEARTBEAT
           /\ messages[2].summary = [kind |-> "Raw", msg_type |-> HEARTBEAT, payload_len |-> 0]

(***************************************************************************)
(* SpecMessage: decode_message applied to one (msg_type, payload), or to   *)
(* the payload an encode_* function produces for one typed message.        *)
(***************************************************************************)
\* n bytes of value v
Repeat(v, n) == [i \in 1..n |-> v]

\* payloads: bytes of one value (NUL, 'A', or 0xFF, which no UTF-8 text
\* holds), with the role byte and the two bytes where the types keep a
\* length either left alone (-1) or set
FillBytes == { 0, 65, 255 }
RoleBytes == { -1, 1, 2 }
LengthBytes == { -1, 0, 1, 3 }

SetIfPresent(b, i, v) == IF v >= 0 /\ i <= Len(b) THEN SetByte(b, i, v) ELSE b

MessagePayloads ==
    { SetIfPresent(SetIfPresent(SetIfPresent(Repeat(v, n), 1, r), 5, l5), 6, l6) :
        v \in FillBytes, n \in 0..MaxMessageLen, r \in RoleBytes,
        l5 \in LengthBytes, l6 \in LengthBytes }

\* payloads for the msg_type values decode_message has no arm for
RawPayloads == { << >>, << 0 >>, Repeat(255, 8), << 0, 1, 0, 0, 0, 1, 65 >> }

\* Strings: empty, ASCII, a two-byte character, 255 bytes, and two of more
\* than 255 bytes (in the second the 255th and 256th byte are one character)
LongName == Repeat(65, 256)
LongNameSplit == Repeat(65, 254) \o << 195, 169 >>
Names == { << >>, << 65 >>, << 72, 195, 169 >>, Repeat(65, 255), LongName, LongNameSplit }

U16Values == { 0, 258, 65535 }
U32Values == { U32Zero, U32(1, 2), U32Max }
U64Values == { << 0, 0, 0, 0 >>, << 1, 2, 3, 65535 >> }
Bodies == { << >>, << 1, 2, 3 >> }

TypedMessages ==
    { MsgHello(r, c, n) : r \in { "Client", "Server" }, c \in U32Values, n \in Names }
    \cup { MsgHelloAck(c, n) : c \in U32Values, n \in Names }
    \cup { MsgHeartbeat(t) : t \in U64Values }
    \cup { MsgRequest(i, k, b) : i \in U32Values, k \in U16Values, b \in Bodies }
    \cup { MsgResponse(i, k, b) : i \in U32Values, k \in U16Values, b \in Bodies }
    \cup { MsgEvent(i, t, b) : i \in U16Values, t \in U64Values, b \in Bodies }
    \cup { MsgError(c, n) : c \in U16Values, n \in Names }

\* the msg_type a typed message travels under
MsgTypeOf(msg) ==
    IF msg.kind = "Hello" THEN HELLO
    ELSE IF msg.kind = "HelloAck" THEN HELLO_ACK
    ELSE IF msg.kind = "Heartbeat" THEN HEARTBEAT
    ELSE IF msg.kind = "Request" THEN REQUEST
    ELSE IF msg.kind = "Response" THEN RESPONSE
    ELSE IF msg.kind = "Event" THEN EVENT
    ELSE ERROR

\* the matching encode_* function
EncodeMessage(msg) ==
    IF msg.kind = "Hello" THEN encode_hello(msg)
    ELSE IF msg.kind = "HelloAck" THEN encode_hello_ack(msg)
    ELSE IF msg.kind = "Heartbeat" THEN encode_heartbeat(msg)
    ELSE IF msg.kind = "Request" THEN encode_request(msg)
    ELSE IF msg.kind = "Response" THEN encode_response(msg)
    ELSE IF msg.kind = "Event" THEN encode_event(msg)
    ELSE encode_error(msg)

\* a frame with the given msg_type and payload, as next_frame returns it
FrameWith(t, payload) ==
    Frame(FrameHeader(t, 0, 0, U32Zero, U32OfUsize(Len(payload)), NoneU32), payload)

MessageInputs ==
    { [op |-> "decode", msg_type |-> t, payload |-> p] :
        t \in KnownMsgTypes, p \in MessagePayloads }
    \cup { [op |-> "decode", msg_type |-> t, payload |-> p] :
             t \in (0..255) \ KnownMsgTypes, p \in RawPayloads }
    \cup { [op |-> "codec", msg |-> msg] : msg \in TypedMessages }

MessageInit ==
    \E in \in MessageInputs :
        /\ input = in
        /\ wire = << >>
        /\ buf = NewDecoderBuf
        /\ ret = MessageDecodeError("")
        /\ op = "new"
        /\ out = << >>
        /\ dropsum = 0
        /\ crcsum = 0
        /\ nerr = 0
        /\ overflowed = FALSE
        /\ pc = "call"
        /\ ActorNew
        /\ CommStateDefault

\* decode_message on a frame with the given msg_type and payload
MessageDecode ==
    /\ pc = "call"
    /\ input.op = "decode"
    /\ ret' = decode_message(FrameWith(input.msg_type, input.payload))
    /\ pc' = "done"
    /\ UNCHANGED << input, wire, buf, op, out, dropsum, crcsum, nerr, overflowed >>
    /\ UNCHANGED avars
    /\ UNCHANGED cvars

\* encode_* on a typed message, then decode_message under its msg_type
MessageCodec ==
    /\ pc = "call"
    /\ input.op = "codec"
    /\ ret' = decode_message(FrameWith(MsgTypeOf(input.msg), EncodeMessage(input.msg)))
    /\ pc' = "done"
    /\ UNCHANGED << input, wire, buf, op, out, dropsum, crcsum, nerr, overflowed >>
    /\ UNCHANGED avars
    /\ UNCHANGED cvars

MessageNext == MessageDecode \/ MessageCodec

SpecMessage == MessageInit /\ [][MessageNext]_vars

\* decode_message has returned for a (msg_type, payload)
Decoded == pc = "done" /\ input.op = "decode"

\* C23: for every msg_type other than 0x01, 0x02, 0x03, 0x10, 0x11, 0x20 and
\* 0x7F and every payload, decode_message succeeds and returns Raw with that
\* msg_type and the payload bytes unchanged.
UnknownTypeIsRaw ==
    (Decoded /\ input.msg_type \notin { 1, 2, 3, 16, 17, 32, 127 }) =>
        /\ ret.kind = "Ok"
        /\ ret.msg = [kind |-> "Raw", msg_type |-> input.msg_type, payload |-> input.payload]

\* C23 is reached: msg_type 0x12 with the bytes of a well-formed HELLO as
\* payload has come back as Raw.
UnknownTypeIsRawWitness ==
    /\ Decoded
    /\ input.msg_type = 18
    /\ input.payload = << 0, 1, 0, 0, 0, 1, 65 >>
    /\ ret.kind = "Ok"
    /\ ret.msg.kind = "Raw"

\* decode_message has returned for the payload encoded from a typed message
Recoded == pc = "done" /\ input.op = "codec"

\* C24: for every typed message of a known type, decode_message on the
\* payload its encode_* function produces, under that type's msg_type,
\* yields a message equal to it.
MessageCodecInverse == Recoded => ret = MessageOk(input.msg)

\* the fixed part of each known type's payload
FixedLen(t) ==
    IF t = HELLO THEN 6
    ELSE IF t = HELLO_ACK THEN 5
    ELSE IF t \in { HEARTBEAT, REQUEST, RESPONSE } THEN 8
    ELSE IF t = EVENT THEN 12
    ELSE 6

\* for the three types with a length-prefixed string: the declared length
\* (0 for the other types)
DeclaredLen(t, p) ==
    IF t = HELLO THEN p[6]
    ELSE IF t = HELLO_ACK THEN p[5]
    ELSE IF t = ERROR THEN p[5] + 256 * p[6]
    ELSE 0

\* a byte that no UTF-8 text holds
NeverUtf8(c) == c \in { 192, 193 } \/ c >= 245

\* C25: for every known msg_type, decode_message returns an error with a
\* text when the payload is shorter than the type's fixed part, when the
\* declared name/message length exceeds the bytes that remain, when the
\* name/message holds a byte no UTF-8 text holds, and for HEARTBEAT whenever
\* the payload is not exactly 8 bytes long.  (Every read of the payload is
\* inside it: a read outside a sequence stops the evaluation.)
PayloadValidation ==
    (Decoded /\ input.msg_type \in KnownMsgTypes) =>
        LET t == input.msg_type
            p == input.payload
            rejected == ret.kind = "Err" /\ ret.error # ""
        IN  /\ Len(p) < FixedLen(t) => rejected
            /\ (t = HEARTBEAT /\ Len(p) # 8) => rejected
            /\ (Len(p) >= FixedLen(t) /\ DeclaredLen(t, p) > Len(p) - FixedLen(t)) => rejected
            /\ (/\ t \in { HELLO, HELLO_ACK, ERROR }
                /\ Len(p) >= FixedLen(t)
                /\ DeclaredLen(t, p) <= Len(p) - FixedLen(t)
                /\ \E i \in 1..DeclaredLen(t, p) : NeverUtf8(p[FixedLen(t) + i])) => rejected

\* C25 is reached: a HELLO payload of 8 bytes that declares a name of 3
\* bytes and holds 2 has been rejected as truncated.
PayloadValidationWitness ==
    /\ Decoded
    /\ input.msg_type = HELLO
    /\ Len(input.payload) = 8
    /\ input.payload[1] = 1
    /\ input.payload[6] = 3
    /\ ret = MessageDecodeError("HELLO name truncated")

\* the step ends the current connection as a lost connection: from Connected
\* to Reconnecting with one more failed attempt, the Error published first
\* (when its emit succeeds) carrying one of the given texts
EndsConnection(texts) ==
    /\ StateOf(apc) = "Connected"
    /\ StateOf(apc') = "Reconnecting"
    /\ attempt' = attempt + 1
    /\ events' # events =>
          \/ NewEvents[1].kind = "Reconnecting"
          \/ NewEvents[1].kind = "Error" /\ NewEvents[1].message \in texts
    /\ faults' = faults + 1 =>
          /\ Len(NewEvents) = 2
          /\ NewEvents[1].kind = "Error"
          /\ NewEvents[1].message \in texts
          /\ NewEvents[2].kind = "Reconnecting"

\* C26: in the Connected loop a write error and a write that does not
\* complete within 2000 ms, a read error and a read of zero bytes ('Remote
\* closed') each end the connection as IoError and take the actor to
\* Reconnecting; the worker leaves Connected towards its end only on a
\* shutdown signal or a failed emit, and then without any Error event.
ConnectionEndingConditions ==
    /\ [][ WriteFailed => EndsConnection({ MsgWriteFailed, MsgWriteTimeout }) ]_vars
    /\ [][ ReadFailed => EndsConnection({ MsgReadFailed, MsgRemoteClosed }) ]_vars
    /\ [][ (StateOf(apc) = "Connected" /\ apc' \in { "exit", "terminated" }) =>
              /\ shutdown_tx = "sent" \/ faults' = faults + 1
              /\ \A i \in 1..Len(NewEvents) : NewEvents[i].kind # "Error" ]_vars

\* C26 is reached: a write timed out, the actor published Error and
\* Reconnecting, slept, reopened the stream and is Connected again.
ConnectionEndingConditionsWitness ==
    /\ apc = "connected"
    /\ EventKinds = << "Connected", "Error", "Reconnecting", "Connected" >>
    /\ events[2].message = MsgWriteTimeout

\* the buffers the callers have enqueued so far, by number
Enqueued == 1..sent

\* where the k-th buffer is
InQueue(k) ==
    \/ \E i \in 1..Len(high_rx) : high_rx[i] = BufferOf(k)
    \/ \E i \in 1..Len(normal_rx) : normal_rx[i] = BufferOf(k)
InWriting(k) == writing = BufferOf(k)

\* how many times the k-th buffer sits in the queues and under write_all
Copies(k) ==
    Cardinality({ i \in 1..Len(high_rx) : high_rx[i] = BufferOf(k) })
    + Cardinality({ i \in 1..Len(normal_rx) : normal_rx[i] = BufferOf(k) })
    + (IF InWriting(k) THEN 1 ELSE 0)

\* C27: an outbound buffer leaves its queue at most once, for write_all, and
\* never goes back: a buffer is written only when taken from a queue, a
\* buffer under write_all is in no queue, a buffer that has left (written,
\* failed or timed out) is never in a queue or under write_all again on this
\* or a later connection, and no buffer is published as Tx twice.
NoRetriedSends ==
    /\ [][ \A k \in 1..(sent + 1) :
             /\ (InWriting(k)' /\ ~InWriting(k)) => (InQueue(k) /\ ~InQueue(k)')
             /\ InWriting(k) => ~InQueue(k)'
             /\ (k \in Enqueued /\ ~InQueue(k) /\ ~InWriting(k)) =>
                   (~InQueue(k)' /\ ~InWriting(k)')
             /\ (WriteFailed /\ InWriting(k)) => (~InQueue(k)' /\ ~InWriting(k)') ]_vars
    /\ [](\A k \in Enqueued :
             /\ Copies(k) <= 1
             /\ CountKind("Tx", 1, Len(events)) <= sent
             /\ Cardinality({ i \in 1..Len(events) :
                    events[i].kind = "Tx" /\ events[i].size = k }) <= 1)

\* C27 is reached: the write of the first buffer failed, the actor has
\* reconnected and is Connected with nothing queued and nothing under
\* write_all; the buffer was never published as Tx.
NoRetriedSendsWitness ==
    /\ apc = "connected"
    /\ sent = 1
    /\ high_rx = << >> /\ normal_rx = << >> /\ writing = << >>
    /\ EventKinds = << "Connected", "Error", "Reconnecting", "Connected" >>
    /\ events[2].message = MsgWriteFailed

(***************************************************************************)
(* What next_frame does with a damaged frame at the head of the buffer     *)
(* (SpecDecoder).                                                          *)
(***************************************************************************)
\* a complete valid frame is at the head of the buffer
ValidFrameAhead(b) ==
    /\ Len(b) >= HEADER_LEN_BASE
    /\ AlignedOnMagic(b)
    /\ VersionAhead(b) = VERSION
    /\ Len(b) >= HeaderLenAhead(b)
    /\ ~PayloadLenTooLarge(PayloadLenAhead(b))
    /\ Len(b) >= FrameLenAhead(b)
    /\ HasCrc(b[7]) =>
          crc32_bytes(SubSeq(b, HeaderLenAhead(b) + 1, FrameLenAhead(b)))
              = u32_from_le_bytes(SubSeq(b, 17, 20))

\* the last call was next_frame and it returned the error with this text
Reported(text) == op = "next_frame" /\ ret.kind = "Err" /\ ret.message = text

\* C28: a next_frame call that reports a CRC32 mismatch found the frame at
\* the head of the buffer and removed exactly its header_len + payload_len
\* bytes, nothing before (dropped_bytes = 0) and nothing after; when a valid
\* frame follows directly, the next next_frame call returns that frame and
\* removes exactly its bytes.
CrcMismatchConsumesFrame ==
    [][ /\ Reported(MsgCrcMismatch)' =>
              /\ Len(buf) >= HEADER_LEN_WITH_CRC
              /\ AlignedOnMagic(buf)
              /\ HasCrc(buf[7])
              /\ Len(buf) >= FrameLenAhead(buf)
              /\ buf' = Advance(buf, FrameLenAhead(buf))
              /\ ret'.dropped_bytes = 0
        /\ (Reported(MsgCrcMismatch) /\ ValidFrameAhead(buf) /\ op' = "next_frame") =>
              /\ ret'.kind = "Frame"
              /\ ret'.dropped_bytes = 0
              /\ ret'.frame.header.payload_len = PayloadLenAhead(buf)
              /\ ret'.frame.header.msg_type = buf[6]
              /\ ret'.frame.payload =
                    SubSeq(buf, HeaderLenAhead(buf) + 1, FrameLenAhead(buf))
              /\ buf' = Advance(buf, FrameLenAhead(buf)) ]_vars

\* C28 is reached: next_frame has reported the CRC mismatch of the damaged
\* frame and the buffer now holds exactly the valid frame that followed it.
CrcMismatchConsumesFrameWitness ==
    /\ Reported(MsgCrcMismatch)
    /\ input = << SetByte(GoodCrc, Len(GoodCrc), 0), GoodPlain >>
    /\ wire = << >>
    /\ buf = GoodPlain
    /\ ValidFrameAhead(buf)

\* a complete header with the right version and a payload_len above
\* max_payload_len is at the head of the buffer
OversizedHeaderAhead(b) ==
    /\ Len(b) >= HEADER_LEN_BASE
    /\ AlignedOnMagic(b)
    /\ VersionAhead(b) = VERSION
    /\ Len(b) >= HeaderLenAhead(b)
    /\ PayloadLenTooLarge(PayloadLenAhead(b))

\* C29: with a complete, aligned, right-version header whose payload_len is
\* above max_payload_len at the head of the buffer, next_frame removes
\* exactly the first byte and returns the 'Payload too large' error with
\* dropped_bytes = 1, whether or not the declared payload has arrived (it
\* never answers Ok(None)); that error is reported in no other situation,
\* and no returned Frame has payload_len > max_payload_len.
OversizedPayloadLen ==
    /\ [][ /\ (OversizedHeaderAhead(buf) /\ op' = "next_frame") =>
                 /\ ret' = DecodeError(MsgPayloadTooLarge, 1)
                 /\ buf' = Advance(buf, 1)
           /\ Reported(MsgPayloadTooLarge)' => OversizedHeaderAhead(buf) ]_vars
    /\ [](ret.kind = "Frame" =>
             /\ ~PayloadLenTooLarge(ret.frame.header.payload_len)
             /\ Len(ret.frame.payload) <= max_payload_len)

\* C29 is reached: the header that declares 0xFFFFFFFF bytes of payload was
\* rejected as soon as it was complete, with none of that payload in the
\* buffer, and one byte of it is gone.
OversizedPayloadLenWitness ==
    /\ Reported(MsgPayloadTooLarge)
    /\ ret.dropped_bytes = 1
    /\ input[1] = SubSeq(GoodPlain, 1, 12) \o << 255, 255, 255, 255 >>
    /\ buf = Advance(input[1], 1)

\* an aligned buffer of at least 16 bytes whose version byte is not VERSION
WrongVersionAhead(b) ==
    /\ Len(b) >= HEADER_LEN_BASE
    /\ AlignedOnMagic(b)
    /\ VersionAhead(b) # VERSION

\* the (0-based) place of the first magic in b, -1 when it holds none
FirstMagic(b) ==
    LET at == { i \in 0..(Len(b) - Len(MAGIC)) : SubSeq(b, i + 1, i + Len(MAGIC)) = MAGIC }
    IN  IF at = { } THEN -1 ELSE CHOOSE i \in at : \A j \in at : i <= j

\* C30: with an aligned buffer of at least 16 bytes whose version byte is
\* not 1, next_frame drops the first byte and aligns again on what is left:
\* it returns an error (never Ok(None), never a Frame) whose dropped_bytes
\* counts that byte and the bytes up to the next magic (all but the last 3
\* when there is no magic), and the buffer is left at that magic. When what
\* follows the wrong-version frame is a valid frame, the next call returns
\* it. A Frame is returned only for a valid frame at the head of the buffer,
\* so a wrong-version frame is never returned, and a call that returns
\* Ok(None) has dropped nothing.
VersionMismatchDropsOneByte ==
    [][ /\ (WrongVersionAhead(buf) /\ op' = "next_frame") =>
              LET rest == Advance(buf, 1)
                  pos == FirstMagic(rest)
              IN  /\ ret'.kind = "Err"
                  /\ ret'.dropped_bytes >= 1
                  /\ buf' = Advance(buf, ret'.dropped_bytes)
                  /\ IF pos = -1
                       THEN /\ ret'.message = MsgMagicNotFound
                            /\ Len(buf') = Len(MAGIC) - 1
                       ELSE /\ ret'.message = MsgDroppedBeforeMagic
                            /\ ret'.dropped_bytes = 1 + pos
                            /\ AlignedOnMagic(buf')
        /\ (Reported(MsgDroppedBeforeMagic) /\ ValidFrameAhead(buf) /\ op' = "next_frame") =>
              /\ ret'.kind = "Frame"
              /\ ret'.frame.payload =
                    SubSeq(buf, HeaderLenAhead(buf) + 1, FrameLenAhead(buf))
              /\ buf' = Advance(buf, FrameLenAhead(buf))
        /\ (op' = "next_frame" /\ ret'.kind = "Frame") => ValidFrameAhead(buf)
        /\ (op' = "next_frame" /\ ret'.kind = "None") =>
              (buf' = buf /\ ret'.dropped_bytes = 0) ]_vars

\* C30 is reached: the frame with version byte 2 was answered by one error
\* that counts its 16 bytes, and the valid frame that followed it is now at
\* the head of the buffer.
VersionMismatchDropsOneByteWitness ==
    /\ Reported(MsgDroppedBeforeMagic)
    /\ ret.dropped_bytes = Len(input[1])
    /\ input = << SetByte(GoodPlain, 5, 2), GoodPlain >>
    /\ wire = << >>
    /\ buf = GoodPlain

\* the peer's whole stream in SpecDecoder, and the (0-based) place in it of
\* the first byte of the buffer: what was pushed is the stream without wire,
\* and the buffer is the end of what was pushed
Stream == Concat(input)
BufStart == Len(Stream) - Len(wire) - Len(buf)

\* a magic starts at the (0-based) place q of the stream
MagicAt(q) ==
    /\ q + Len(MAGIC) <= Len(Stream)
    /\ SubSeq(Stream, q + 1, q + Len(MAGIC)) = MAGIC

\* C31: a next_frame call on a buffer of at least 4 bytes that holds no magic
\* keeps exactly the last 3 bytes and returns the 'magic not found' error
\* with dropped_bytes = buffered length - 3. None of the dropped bytes is
\* the first byte of a magic of the stream, so a magic that is split between
\* the kept tail and a later push is still there; and a buffer that starts
\* with a magic is never answered by a resync error unless its version byte
\* is wrong, so that magic is taken where it is.
MagicNotFoundKeepsTail ==
    [][ /\ (Len(buf) >= Len(MAGIC) /\ FirstMagic(buf) = -1 /\ op' = "next_frame") =>
              /\ ret' = DecodeError(MsgMagicNotFound, Len(buf) - (Len(MAGIC) - 1))
              /\ buf' = SubSeq(buf, Len(buf) - (Len(MAGIC) - 1) + 1, Len(buf))
              /\ Len(buf') = Len(MAGIC) - 1
        /\ (Reported(MsgMagicNotFound)' /\ FirstMagic(buf) = -1) =>
              \A q \in BufStart..(BufStart + ret'.dropped_bytes - 1) : ~MagicAt(q)
        /\ (AlignedOnMagic(buf) /\ op' = "next_frame" /\ ret'.kind = "Err"
              /\ ret'.message \in { MsgMagicNotFound, MsgDroppedBeforeMagic }) =>
              WrongVersionAhead(buf) ]_vars

\* C31 is reached: the buffer held noise and the first 3 bytes of the next
\* frame's magic; the call dropped the noise, kept those 3 bytes, and the
\* rest of that magic is still to be pushed.
MagicNotFoundKeepsTailWitness ==
    /\ Reported(MsgMagicNotFound)
    /\ ret.dropped_bytes = 4
    /\ buf = SubSeq(MAGIC, 1, Len(MAGIC) - 1)
    /\ MagicAt(BufStart)
    /\ input = << << 0, 72, 77, 73 >>, GoodCrc >>
    /\ wire = Advance(GoodCrc, Len(MAGIC) - 1)

(***************************************************************************)
(* The decoder of a connection (SpecActor).                                *)
(***************************************************************************)
RECURSIVE BufAfterReads(_, _)
\* the decoder buffer after the reads published in evs, pushed and drained
\* one after the other into a decoder that holds b
BufAfterReads(b, evs) ==
    IF evs = << >> THEN b
    ELSE IF Head(evs).kind = "Rx"
      THEN BufAfterReads(OnRead(b, Head(evs).data).buf, Tail(evs))
      ELSE BufAfterReads(b, Tail(evs))

\* the events published since the last Connected event
SinceConnected ==
    SubSeq(events, LastConnectedBefore(Len(events) + 1) + 1, Len(events))

\* the events published before the last Connected event
BeforeConnected == SubSeq(events, 1, LastConnectedBefore(Len(events) + 1) - 1)

\* C32: every step that enters run_io_loop leaves the decoder empty,
\* whatever the decoder of the connection before held, and while a
\* connection is up the decoder holds what the reads of this connection
\* alone leave in an empty decoder: bytes buffered when an earlier
\* connection was lost are in no way part of it.
DecoderPerConnection ==
    /\ [][ (apc \in { "connecting", "opening" } /\ apc' = "connected") =>
              buf' = << >> ]_vars
    /\ [](apc \in { "connected", "writing" } =>
             /\ LastConnectedBefore(Len(events) + 1) > 0
             /\ buf = BufAfterReads(<< >>, SinceConnected))

\* C32 is reached: the first connection was lost after a read that left a
\* partial frame in the decoder (an Rx, no Message, no DecodeError); on the
\* second connection the rest of that frame was read and reported as a
\* DecodeError, not completed into a Message.
DecoderPerConnectionWitness ==
    /\ apc = "connected"
    /\ LastConnectedBefore(Len(events) + 1) > 1
    /\ OfKind(BeforeConnected, "Rx") # << >>
    /\ OfKind(BeforeConnected, "Message") = << >>
    /\ OfKind(BeforeConnected, "DecodeError") = << >>
    /\ OfKind(SinceConnected, "Rx") # << >>
    /\ OfKind(SinceConnected, "DecodeError") # << >>
    /\ OfKind(SinceConnected, "Message") = << >>

\* the buffer holds too little for next_frame to decide anything: less than
\* a magic, or an aligned right-version start of a frame that is not
\* complete and does not declare too long a payload
MustWait(b) ==
    \/ Len(b) < Len(MAGIC)
    \/ /\ AlignedOnMagic(b)
       /\ \/ Len(b) < HEADER_LEN_BASE
          \/ /\ VersionAhead(b) = VERSION
             /\ \/ Len(b) < HeaderLenAhead(b)
                \/ /\ ~PayloadLenTooLarge(PayloadLenAhead(b))
                   /\ Len(b) < FrameLenAhead(b)

\* C34: a next_frame call that returns Ok(None) leaves the buffer exactly as
\* it was and reports no dropped byte; it returns Ok(None) exactly when the
\* buffer holds less than a magic or an aligned, so far acceptable, frame
\* that is not complete.
InsufficientDataKeepsBuffer ==
    [][ op' = "next_frame" =>
          /\ ret'.kind = "None" => (buf' = buf /\ ret' = OkNone)
          /\ ret'.kind = "None" <=> MustWait(buf) ]_vars

\* C34 is reached: next_frame answered Ok(None) with all of a frame but its
\* last byte in the buffer, and the buffer still holds those bytes.
InsufficientDataKeepsBufferWitness ==
    /\ op = "next_frame"
    /\ ret.kind = "None"
    /\ buf = SubSeq(GoodCrc, 1, Len(GoodCrc) - 1)
    /\ input[1] = GoodCrc

(***************************************************************************)
(* SpecConserve: two pieces, well-formed or damaged, pushed in chunks of   *)
(* any size with next_frame called at any time, every result tallied.      *)
(***************************************************************************)
ConserveInputs == { << p, q >> : p \in Pieces, q \in Pieces }

ConserveInit == \E in \in ConserveInputs : DecNew(in, Concat(in))

ConservePush ==
    /\ wire # << >>
    /\ \E n \in 1..Len(wire) :
          /\ DecPush(SubSeq(wire, 1, n))
          /\ wire' = Advance(wire, n)
    /\ UNCHANGED << input, pc >>

ConserveNextFrame ==
    /\ DecNextFrame
    /\ UNCHANGED << input, wire, pc >>

ConserveNext == ConservePush \/ ConserveNextFrame

SpecConserve == ConserveInit /\ [][ConserveNext]_vars

\* the bytes pushed so far
Pushed == Len(Stream) - Len(wire)

RECURSIVE FramesLen(_)
\* the total length, header and payload, of returned frames
FramesLen(frames) ==
    IF frames = << >> THEN 0
    ELSE (IF HasCrc(Head(frames).header.flags) THEN HEADER_LEN_WITH_CRC ELSE HEADER_LEN_BASE)
         + Len(Head(frames).payload) + FramesLen(Tail(frames))

\* C35: as long as no push has overflowed, the bytes pushed are the bytes
\* still buffered, the bytes of the frames returned, the bytes of the frames
\* rejected for a CRC mismatch and the dropped_bytes of all errors; an error
\* for a CRC mismatch carries dropped_bytes = 0.
ByteConservation ==
    /\ ~overflowed => Pushed = Len(buf) + FramesLen(out) + crcsum + dropsum
    /\ (ret.kind = "Err" /\ ret.message = MsgCrcMismatch) => ret.dropped_bytes = 0

\* C35 is reached: everything was pushed without overflow; a frame was
\* rejected for its CRC, resync errors dropped bytes, and 3 bytes are left.
ByteConservationWitness ==
    /\ wire = << >>
    /\ ~overflowed
    /\ crcsum > 0
    /\ dropsum > 0
    /\ Len(buf) = Len(MAGIC) - 1

(***************************************************************************)
(* The size of the actor's decoder buffer (SpecActor).                     *)
(***************************************************************************)
\* DecoderConfig::default() and READ_BUFFER_SIZE as the source has them
\* 8 * 1024 * 1024
DefaultMaxPayloadLen == 8388608
\* 16 * 1024 * 1024
DefaultMaxBufferLen == 16777216
DefaultReadBufferSize == 4096

\* the most bytes a drained decoder can hold: one byte less than the longest
\* frame
DrainedMax(payload_max) == HEADER_LEN_WITH_CRC + payload_max - 1

\* C36: a decoder for which next_frame has nothing more to report holds
\* fewer than 20 + max_payload_len bytes; the actor drains after every
\* push, so its buffer stays below that between reads, a read adds at
\* most READ_BUFFER_SIZE bytes, and the sum stays within max_buffer_len
\* (in the configuration of the model and in the default one): no push of
\* the actor overflows and no DecodeError for an overflow is published.
ActorNeverOverflows ==
    /\ [](/\ DrainedMax(max_payload_len) + READ_BUFFER_SIZE <= max_buffer_len
          /\ DrainedMax(DefaultMaxPayloadLen) + DefaultReadBufferSize <= DefaultMaxBufferLen
          /\ apc \in { "connected", "writing" } =>
                /\ next_frame(buf).ret.kind = "None"
                /\ Len(buf) <= DrainedMax(max_payload_len)
          /\ \A i \in 1..Len(events) :
                events[i].kind = "DecodeError" => events[i].message # MsgOverflow)
    /\ [][ ReadStep =>
              /\ Len(BytesRead) <= READ_BUFFER_SIZE
              /\ push(buf, BytesRead).ret.kind = "Ok"
              /\ Len(push(buf, BytesRead).buf) <= max_buffer_len ]_vars

\* C36 is reached: between two reads the decoder holds the complete header
\* of a frame whose payload has not arrived yet, and nothing was reported.
ActorNeverOverflowsWitness ==
    /\ apc = "connected"
    /\ Len(buf) >= HEADER_LEN_BASE
    /\ AlignedOnMagic(buf)
    /\ OfKind(events, "Rx") # << >>
    /\ OfKind(events, "DecodeError") = << >>
    /\ OfKind(events, "Message") = << >>

(***************************************************************************)
(* SpecActorQueues: the actor of SpecActor with a select that takes a      *)
(* queued buffer when it is polled.                                        *)
(***************************************************************************)
QueueFairness ==
    /\ ActorFairness
    /\ WF_vars(SelectHigh)
    /\ WF_vars(SelectNormal)

SpecActorQueues == ActorInit /\ [][ActorNext]_vars /\ QueueFairness

\* q2 is q, or q with one buffer appended
Appended(q, q2) ==
    \/ q2 = q
    \/ Len(q2) = Len(q) + 1 /\ SubSeq(q2, 1, Len(q)) = q

\* q2 is q without its head, which is now under write_all
HeadTaken(q, q2) ==
    /\ q # << >>
    /\ q2 = Tail(q)
    /\ writing' = Head(q)
    /\ apc = "connected" /\ apc' = "writing"

\* the buffers of a queue are in the order in which they were enqueued (the
\* k-th buffer enqueued has k bytes)
InEnqueueOrder(q) == \A i, j \in 1..Len(q) : i < j => Len(q[i]) < Len(q[j])

\* C37: the two queues belong to the actor, not to a connection: no step
\* but the select of a Connected loop takes a buffer out, and it takes the
\* head, so what is enqueued while the actor is Connecting or Reconnecting
\* stays queued in order; a write that succeeds publishes exactly one Tx
\* event with the buffer's length, and Tx events come from nothing else; a
\* queued buffer leaves its queue for write_all unless the actor ends.
QueuesSurviveReconnects ==
    /\ [][ /\ Appended(high_rx, high_rx') \/ HeadTaken(high_rx, high_rx')
           /\ Appended(normal_rx, normal_rx') \/ HeadTaken(normal_rx, normal_rx')
           /\ (apc = "writing" /\ apc' # "writing" /\ faults' = faults) =>
                 /\ NewEvents = << EvTx(Len(writing)) >>
                 /\ apc' = "connected"
           /\ (\E i \in 1..Len(NewEvents) : NewEvents[i].kind = "Tx") =>
                 /\ apc = "writing"
                 /\ NewEvents = << EvTx(Len(writing)) >> ]_vars
    /\ [](InEnqueueOrder(high_rx) /\ InEnqueueOrder(normal_rx))
    /\ \A k \in 1..(MaxEnv + 1) :
          InQueue(k) ~> (InWriting(k) \/ apc = "terminated")

\* C37 is reached: the first connection was lost by a failed read, and on
\* the second connection the buffer enqueued since then was written and
\* published as Tx with its length.
QueuesSurviveReconnectsWitness ==
    /\ apc = "connected"
    /\ EventKinds = << "Connected", "Error", "Reconnecting", "Connected", "Tx" >>
    /\ events[2].message \in { MsgReadFailed, MsgRemoteClosed }
    /\ events[5].size = Len(BufferOf(1))
    /\ sent = 1

(***************************************************************************)
(* The read branch drains the decoder (SpecActor).                         *)
(***************************************************************************)
RECURSIVE IsSubsequence(_, _)
\* the elements of s occur in t, in the order of s
IsSubsequence(s, t) ==
    IF s = << >> THEN TRUE
    ELSE IF t = << >> THEN FALSE
    ELSE IF s[1] = t[1] THEN IsSubsequence(Tail(s), Tail(t))
    ELSE IsSubsequence(s, Tail(t))

\* the headers of the Message events published so far, in order
MessageHeaders == [i \in 1..Len(OfKind(events, "Message")) |->
                      OfKind(events, "Message")[i].header]

\* the headers of the frames the peer put on the wire, in order
WireHeaders == [i \in 1..Len(FramesOf(input.stream)) |->
                   FramesOf(input.stream)[i].header]

\* C33: a read publishes its Rx first (with the bytes read) and after it
\* only Message and DecodeError events, and these two kinds come from no
\* other step; when the read's emits all succeed, the decoder afterwards
\* has no complete valid frame at the head of its buffer and next_frame
\* would return Ok(None) and leave the buffer alone; between reads the
\* Connected loop never holds a complete valid frame; the Message events
\* published carry the headers of frames of the wire, in wire order.
DrainAfterEveryRead ==
    /\ [][ ReadStep =>
              /\ NewEvents # << >> => NewEvents[1] = EvRx(BytesRead)
              /\ \A i \in 2..Len(NewEvents) :
                    NewEvents[i].kind \in { "Message", "DecodeError" }
              /\ faults' = faults =>
                    /\ NewEvents # << >>
                    /\ ~ValidFrameAhead(buf')
                    /\ next_frame(buf') = Call(buf', OkNone) ]_vars
    /\ [][ ~ReadStep =>
              \A i \in 1..Len(NewEvents) :
                  NewEvents[i].kind \notin { "Rx", "Message", "DecodeError" } ]_vars
    /\ [](apc \in { "connected", "writing" } => ~ValidFrameAhead(buf))
    /\ [](IsSubsequence(MessageHeaders, WireHeaders))

\* C33 is reached: the second read completed two frames; the actor
\* published its Rx and then the Message of each, in wire order, and the
\* decoder is empty.
DrainAfterEveryReadWitness ==
    /\ input.stream = PlainMax \o GoodPlain
    /\ apc = "connected"
    /\ buf = << >>
    /\ EventKinds = << "Connected", "Rx", "Rx", "Message", "Message" >>
    /\ events[3].size = Len(GoodPlain) + 1
    /\ events[4].header.seq = U32(0, 7)
    /\ events[5].header.seq = U32(0, 1)

(***************************************************************************)
(* Events that cannot be published (SpecActor).                            *)
(***************************************************************************)
\* the step is a failed attempt: open_stream failed, or run_io_loop
\* returned IoError
AttemptFailed == attempt' = attempt + 1

\* how many emits of the step returned false: the failed calls of the step
\* other than the failed open, read or write_all of a failed attempt
FailedEmits == faults' - faults - (IF AttemptFailed THEN 1 ELSE 0)

\* C39: a step in which the emit of Connected, of Tx, or of the Rx, a
\* Message or a DecodeError of a read fails publishes nothing after the
\* failure and takes the worker out of its loop (one failed emit ends the
\* step); from there the worker only emits Disconnected and ends, with no
\* further attempt and no Error, Reconnecting or Connected; a failed
\* attempt goes to the backoff sleep with the same attempt and delay
\* whether Error and Reconnecting were published or not, and the worker
\* ends whether Disconnected was published or not.
ObserverFailureEndsActor ==
    /\ [][ (~AttemptFailed /\ apc # "exit" /\ FailedEmits > 0) =>
              /\ FailedEmits = 1
              /\ apc' = "exit"
              /\ apc \in { "connecting", "opening", "writing", "connected" }
              /\ apc \in { "connecting", "opening", "writing" } => NewEvents = << >>
              /\ apc = "connected" =>
                    /\ ReadStep
                    /\ NewEvents # << >> =>
                          /\ NewEvents[1] = EvRx(BytesRead)
                          /\ ~Replays(push(buf, BytesRead).buf, Tail(NewEvents)) ]_vars
    /\ [][ (apc = "writing" /\ apc' = "connected") =>
              (FailedEmits = 0 /\ NewEvents = << EvTx(Len(writing)) >>) ]_vars
    /\ [][ (apc \in { "connecting", "opening" } /\ apc' = "connected") =>
              (FailedEmits = 0 /\ NewEvents = << EvConnected >>) ]_vars
    /\ [][ (apc \in { "exit", "terminated" }) =>
              /\ apc' \in { "exit", "terminated" }
              /\ attempt' = attempt
              /\ (\A i \in 1..Len(NewEvents) : NewEvents[i] = EvDisconnected) ]_vars
    /\ [][ AttemptFailed =>
              /\ apc' = "sleeping"
              /\ delay_ms' = compute_backoff_ms(attempt')
              /\ Len(NewEvents) + FailedEmits = 2
              /\ \A i \in 1..Len(NewEvents) :
                    \/ NewEvents[i].kind = "Error"
                    \/ NewEvents[i] = EvReconnecting(attempt', delay_ms')
              /\ Len(NewEvents) = 2 => NewEvents[1].kind = "Error" ]_vars
    /\ [][ (apc = "exit" /\ apc' = "terminated") =>
              /\ Len(NewEvents) + FailedEmits = 1
              /\ NewEvents \in { << >>, << EvDisconnected >> } ]_vars

\* C39 is reached: a buffer was written and the emit of its Tx failed; the
\* worker has ended without a shutdown signal, having published Connected
\* and Disconnected and nothing else.
ObserverFailureEndsActorWitness ==
    /\ apc = "terminated"
    /\ shutdown_tx = "unsent"
    /\ faults = 1
    /\ sent = 1
    /\ high_rx = << >> /\ normal_rx = << >> /\ writing = << >>
    /\ wire = input.stream
    /\ events = << EvConnected, EvDisconnected >>

(***************************************************************************)
(* SpecHmipSend: send_serial_hmip_frame and send_tcp_hmip_frame invoked    *)
(* concurrently, with or without a sequence number, and the workers of     *)
(* the two installed handles.                                              *)
(***************************************************************************)
MsgTcpNotConnected == "TCP not connected"
MsgTcpQueueFull == "TCP write queue is full"
MsgTcpClosed == "TCP connection is closed"

Transports == { "serial", "tcp" }

\* the texts a command of the transport returns
NotConnectedText(transport) ==
    IF transport = "serial" THEN MsgNotConnected ELSE MsgTcpNotConnected
TrySendText(transport, result) ==
    IF transport = "serial" \/ result = "Ok" THEN result
    ELSE IF result = MsgQueueFull THEN MsgTcpQueueFull
    ELSE MsgTcpClosed

\* u32 wrapping addition of a small number
u32_wrapping_add(u, n) ==
    LET lo == u.lo + n
    IN  U32((u.hi + (lo \div 65536)) % 65536, lo % 65536)

\* seq.unwrap_or(HMIP_NEXT_SEQ.fetch_add(1, ..)): the counter is advanced
\* whether or not the caller gave a sequence number
next_hmip_seq_eager(seq, counter) ==
    [seq |-> IF seq.some THEN seq.val ELSE counter,
     counter |-> u32_wrapping_add(counter, 1)]

\* next_hmip_seq: the caller's sequence number, or else the counter's value,
\* which fetch_add replaces by the next one in the same atomic operation
next_hmip_seq(seq, counter) ==
    IF seq.some THEN [seq |-> seq.val, counter |-> counter]
    ELSE [seq |-> counter, counter |-> u32_wrapping_add(counter, 1)]

\* an invocation of send_*_hmip_frame with its HmipSendFrame (msg_type 3,
\* no flags, no channel, an empty payload)
HmipCall(transport, seq, priority) ==
    [cmd |-> "hmip", pc |-> "idle", h |-> 0, old |-> 0, priority |-> priority,
     data |-> << >>, result |-> "none", transport |-> transport, seq |-> seq,
     assigned |-> U32Zero]

\* send_*_hmip_frame under the lock: no handle and the command returns the
\* error, or the two senders of the installed handle are cloned
HmipSendClone(c, transport, seq, priority) ==
    /\ Idle(c)
    /\ LET call == HmipCall(transport, seq, priority)
           slot == IF transport = "serial" THEN serial ELSE tcp
       IN  calls' = [calls EXCEPT ![c] =
                        IF slot = 0 THEN Return(call, NotConnectedText(transport))
                        ELSE [call EXCEPT !.pc = "next_seq", !.h = slot]]
    /\ UNCHANGED << serial, tcp, handles, HMIP_NEXT_SEQ >>
    /\ UNCHANGED << dvars, avars >>

\* send_*_hmip_frame: next_hmip_seq(frame.seq) and encode_frame
HmipSendNextSeq(c) ==
    /\ calls[c].cmd = "hmip"
    /\ calls[c].pc = "next_seq"
    /\ LET r == next_hmip_seq(calls[c].seq, HMIP_NEXT_SEQ)
       IN  /\ HMIP_NEXT_SEQ' = r.counter
           /\ calls' = [calls EXCEPT ![c] =
                           [@ EXCEPT !.pc = "try_send", !.assigned = r.seq,
                                     !.data = encode_frame(
                                         EncodeFrameParams(HEARTBEAT, 0, 0, r.seq, << >>))]]
    /\ UNCHANGED << serial, tcp, handles >>
    /\ UNCHANGED << dvars, avars >>

\* send_*_hmip_frame: try_send on the sender the priority selects; Ok(seq)
\* or the error's text
HmipSendTrySend(c) ==
    /\ calls[c].cmd = "hmip"
    /\ calls[c].pc = "try_send"
    /\ LET a == handles[calls[c].h]
           closed == a.worker = "terminated"
           t == calls[c].transport
       IN  IF PriorityOf(calls[c].priority) = "High"
           THEN LET r == try_send(a.tx_high, closed, HighQueueCapacity, calls[c].data)
                IN  /\ handles' = [handles EXCEPT ![calls[c].h].tx_high = r.queue]
                    /\ calls' = [calls EXCEPT ![c] =
                                    Return(calls[c], TrySendText(t, r.result))]
           ELSE LET r == try_send(a.tx_normal, closed, NormalQueueCapacity, calls[c].data)
                IN  /\ handles' = [handles EXCEPT ![calls[c].h].tx_normal = r.queue]
                    /\ calls' = [calls EXCEPT ![c] =
                                    Return(calls[c], TrySendText(t, r.result))]
    /\ UNCHANGED << serial, tcp, HMIP_NEXT_SEQ >>
    /\ UNCHANGED << dvars, avars >>

\* a run: which transports have a handle installed (handle 1 in
\* CommState.serial, handle 2 in CommState.tcp), whether the high queue
\* of the serial one is full (the invocations then ask for it, and have no
\* priority otherwise), the counter's value (1 in a new process; the
\* last values before it wraps after 2^32 - 2 draws), how many invocations
HmipRuns ==
    { [serial |-> a, tcp |-> b, full |-> FALSE, start |-> U32(0, 1), calls |-> MaxCalls] :
        a \in BOOLEAN, b \in BOOLEAN }
    \cup { [serial |-> TRUE, tcp |-> TRUE, full |-> FALSE, start |-> s, calls |-> MaxCalls] :
             s \in { U32(65535, 65534), U32Max } }
    \cup { [serial |-> TRUE, tcp |-> TRUE, full |-> TRUE, start |-> U32Max, calls |-> MaxCalls] }

HmipInit ==
    \E run \in HmipRuns :
        /\ input = run
        /\ wire = << >>
        /\ buf = NewDecoderBuf
        /\ ret = OkUnit
        /\ op = "new"
        /\ out = << >>
        /\ dropsum = 0
        /\ crcsum = 0
        /\ nerr = 0
        /\ overflowed = FALSE
        /\ pc = "done"
        /\ ActorNew
        /\ serial = IF run.serial THEN 1 ELSE 0
        /\ tcp = IF run.tcp THEN 2 ELSE 0
        /\ handles = [h \in Handles |->
                        IF h = 1 /\ run.serial
                        THEN [SpawnedActor EXCEPT !.tx_high =
                                  Backlog(IF run.full THEN HighQueueCapacity ELSE 0)]
                        ELSE IF h = 2 /\ run.tcp THEN SpawnedActor
                        ELSE NoActor]
        /\ calls = [c \in Calls |-> NoCall]
        /\ HMIP_NEXT_SEQ = run.start

\* frame.seq of an invocation: omitted, or given
SeqChoices == { NoneU32, SomeU32(U32(7, 1)) }

HmipNext ==
    \/ \E c \in Calls, t \in Transports, seq \in SeqChoices :
          HmipSendClone(c, t, seq, IF input.full THEN "High" ELSE "None")
    \/ \E c \in Calls : HmipSendNextSeq(c)
    \/ \E c \in Calls : HmipSendTrySend(c)
    \/ \E h \in Handles : WorkerRecvHigh(h)
    \/ \E h \in Handles : WorkerRecvNormal(h)
    \/ \E h \in Handles : WorkerEmitFailed(h)

SpecHmipSend == HmipInit /\ [][HmipNext]_vars

\* the invocation omitted seq
Auto(c) == calls[c].cmd = "hmip" /\ ~calls[c].seq.some

\* the invocation has a sequence number: it found a handle and went on
Drawn(c) ==
    /\ calls[c].cmd = "hmip"
    /\ \/ calls[c].pc = "try_send"
       \/ calls[c].pc = "done" /\ calls[c].result # NotConnectedText(calls[c].transport)

\* the invocations that have drawn from the counter
Draws == { c \in Calls : Auto(c) /\ Drawn(c) }

\* C38: the counter is one for both transports and has advanced by exactly
\* the number of invocations that omitted seq and found a handle, whatever
\* their try_send returned later; these invocations got the counter's
\* values from its start on (1 in a new process), each a different one,
\* also across the wrap from 2^32 - 1 to 0; an invocation that gave seq
\* uses it unchanged; the frame enqueued carries the number.
AutomaticSequenceNumbers ==
    /\ HMIP_NEXT_SEQ = u32_wrapping_add(input.start, Cardinality(Draws))
    /\ \A c \in Draws :
          /\ \E i \in 0..(Cardinality(Draws) - 1) :
                calls[c].assigned = u32_wrapping_add(input.start, i)
          /\ \A d \in Draws : d # c => calls[d].assigned # calls[c].assigned
    /\ \A c \in Calls :
          Drawn(c) =>
             /\ calls[c].seq.some => calls[c].assigned = calls[c].seq.val
             /\ SubSeq(calls[c].data, 9, 12) = u32_to_le_bytes(calls[c].assigned)

\* C38 is reached: a serial and a TCP invocation, both without seq, drew
\* 2^32 - 1 and 0; one of them then found its queue full, the other was
\* enqueued; the counter stands at 1.
AutomaticSequenceNumbersWitness ==
    /\ input.start = U32Max
    /\ Draws = { 1, 2 }
    /\ calls[1].transport # calls[2].transport
    /\ calls[1].pc = "done" /\ calls[2].pc = "done"
    /\ { calls[1].result, calls[2].result } = { "Ok", MsgQueueFull }
    /\ { calls[1].assigned, calls[2].assigned } = { U32Max, U32Zero }
    /\ HMIP_NEXT_SEQ = U32(0, 1)

====
